---- MODULE Spec2Model ----
(***************************************************************************)
(* Model of the hub's notification layer (NotificationHub, event parsing), *)
(* of the message store (addMessage, mergeSessionMessages) and of the      *)
(* handlers around them (store schema, guards, push channel, session       *)
(* configuration, terminals).                                              *)
(*                                                                         *)
(* The specifications of this module:                                      *)
(*   Spec      - the NotificationHub driven by the Sync Engine's events,   *)
(*               Node timers and channel promises;                         *)
(*   ReadySpec - the hub's ready path, with the history of sendReady calls;*)
(*   StoreSpec - the messages table under addMessage and                   *)
(*               mergeSessionMessages;                                     *)
(*   AddSpec   - the messages table under addMessage as the clock runs.    *)
(*   PermSpec  - the hub's permission path, with the history of the ids    *)
(*               the session events have shown;                            *)
(*   HungSpec  - the hub with channel calls that never settle;             *)
(*   ParseSpec - extractMessageEventType of eventParsing.ts on bounded     *)
(*               events;                                                   *)
(*   ReadSpec  - getMessages and getMessagesAfter over the messages table; *)
(*   SeqSpec   - the seqs the messages hold over addMessage and merges;    *)
(*   WriterSpec - addMessage statement by statement, two callers;          *)
(*   NamespaceSpec - sessions and machines by namespace;                   *)
(*   OpenSpec  - Store.initSchema on any database file;                    *)
(*   PushSpec  - PushNotificationChannel;                                  *)
(*   GuardSpec - the route guards requireSession and requireMachine;       *)
(*   LeakSpec  - the hub over deactivations and reactivations of a session;*)
(*   DebounceSpec - the permission path for all time, with fairness;       *)
(*   FrameSpec - the hub with the events of two sessions interleaved;      *)
(*   AgreeSpec - the two implementations of extractMessageEventType;       *)
(*   ConfigSpec - runCodex's set-session-config and get-session-config;    *)
(*   TerminalSpec - the terminal handlers of the CLI sockets.              *)
(* The hub's and the store's specifications leave each other's variables   *)
(* at their initial values.                                                *)
(***************************************************************************)
EXTENDS Integers, Sequences, FiniteSets, Bags, TLC

\* ------------------------------------------------------------------ bounds

\* Clock horizon: the hub is observed for MaxTime ticks after construction.
MaxTime == 3
\* Channel dispatches that may be in flight (awaiting a channel) at once.
MaxTasks == 1
\* Length of the channel list handed to the constructor.
NumChannels == 2

\* options.permissionDebounceMs / options.readyCooldownMs (scaled).
PermissionDebounceMs == 2
ReadyCooldownMs == 2
\* Date.now() when the hub is constructed: wall-clock time is far beyond any
\* cooldown, so `now - 0 >= readyCooldownMs` from the start.
StartTime == ReadyCooldownMs

Sessions == {"s1", "s2"}
\* const SCHEMA_VERSION = 1, and a version stamped by another build.
SCHEMA_VERSION == 1
OtherVersion == SCHEMA_VERSION + 1
REQUIRED_TABLES == {"sessions", "machines", "messages", "users", "push_subscriptions"}
\* The database right after `new Store(path)` on an empty file.
NewDatabase ==
    [user_version |-> SCHEMA_VERSION, tables |-> REQUIRED_TABLES,
     sessions |-> {}, machines |-> {}]

\* The handlers that call addMessage, and a handler outside a call.
Writers == {"w1", "w2"}
IdleWriter == [pc |-> "idle", added |-> {}]
RequestIds == {"r1", "r2"}
Channels == 1..NumChannels
Handles == 1..(Cardinality(Sessions) + 1)

VARIABLES
    sessions,                 \* Sync Engine: session id -> session (getSession)
    now,                      \* Date.now()
    subscribed,               \* unsubscribeSyncEvents # null
    lastKnownRequests,        \* Map<sessionId, Set<requestId>>
    notificationDebounce,     \* Map<sessionId, Timeout>
    lastReadyNotificationAt,  \* Map<sessionId, number>
    timers,                   \* Node's scheduled setTimeout callbacks
    tasks,                    \* notifyReady / notifyPermission calls awaiting a channel
    obs,                      \* what the last step did: event handled, timer fired, channel calls
    messages,                 \* the rows of the messages table
    ret,                      \* the last store call and what it returned
    readyLog,                 \* history: when each channel last got sendReady, per session
    idHistory,                \* history: the pending ids the events of a session have shown
    hung,                     \* history: the dispatches whose channel call never settles
    held,                     \* history: every (message, session, seq) a message has held
    writers,                  \* the handlers calling addMessage: where each is in its call
    database,                 \* the SQLite file besides messages: user_version, tables, sessions and machines rows
    created,                  \* history: the entities getOrCreate calls returned, with the namespace asked for
    lapsed,                   \* history: what the hub held for a session when an event showed it inactive
    config,                   \* runCodex: currentPermissionMode, currentCollaborationMode, currentModel and the session permission mode
    terminals                 \* the terminal registry, the connected terminal sockets and the sessions resolveSessionAccess grants

hubVars == <<subscribed, lastKnownRequests, notificationDebounce,
             lastReadyNotificationAt, timers, tasks>>

\* ------------------------------------------------------------------ JS values

JUndefined == [k |-> "undefined"]
JNull == [k |-> "null"]
JString(s) == [k |-> "string", s |-> s]
JNumber(n) == [k |-> "number", n |-> n]
JArray == [k |-> "array"]
\* An object, by the three properties the parser reads.
JObject(type, data, content) ==
    [k |-> "object", type |-> type, data |-> data, content |-> content]

\* Boolean(value) && typeof value === 'object'
isObject(value) == value.k \in {"object", "array"}

\* value[name] for an object; an array has none of the named properties.
Prop(value, name) == IF value.k = "object" THEN value[name] ELSE JUndefined

extractEventEnvelope(message) ==
    IF ~isObject(message) THEN JNull
    ELSE IF Prop(message, "type") = JString("event") THEN message
    ELSE LET content == Prop(message, "content")
         IN  IF ~isObject(content) \/ Prop(content, "type") # JString("event")
             THEN JNull
             ELSE content

\* Mutant: the top-level data field comes first.
MessageContent_DataFirst(event) ==
    LET content == IF event.message.k = "object" THEN event.message.content
                   ELSE JUndefined
    IN  IF event.data.k \in {"undefined", "null"} THEN content ELSE event.data

\* event.message?.content ?? event.data (a message that is no object has no
\* content).
MessageContent(event) ==
    LET content == IF event.message.k = "object" THEN event.message.content
                   ELSE JUndefined
    IN  IF content.k \in {"undefined", "null"} THEN event.data ELSE content

extractMessageEventType(event) ==
    IF event.type # "message-received" THEN JNull
    ELSE LET envelope == extractEventEnvelope(MessageContent(event))
         IN  IF envelope = JNull THEN JNull
             ELSE LET data == IF isObject(envelope.data) THEN envelope.data ELSE JNull
                      eventType == IF data = JNull THEN JUndefined ELSE Prop(data, "type")
                  IN  IF eventType.k = "string" THEN eventType ELSE JNull

\* ------------------------------------------------------------------ sessions

NoSession == [exists |-> FALSE, active |-> FALSE, hasRequests |-> FALSE, requests |-> {}]

\* runCodex at start, the session ready: opts.permissionMode ?? 'default', no
\* model, no collaboration mode.
InitialConfig ==
    [permissionMode |-> [k |-> "string", s |-> "default"],
     collaborationMode |-> [k |-> "undefined"],
     model |-> [k |-> "undefined"],
     synced |-> [k |-> "string", s |-> "default"]]

\* No terminal is registered and no terminal socket is connected.
NoTerminals == [entries |-> {}, sockets |-> {}, accessible |-> {}]

\* Nothing was held for the session at a deactivation, or none was observed.
NoLapse == [ids |-> {}, readyAt |-> -1, perm |-> FALSE, ready |-> FALSE]

\* A session as getSession returns it: active flag and agentState?.requests
\* (hasRequests is FALSE when agentState or its requests map is null). The hub
\* never reads the requests of an inactive session: one inactive value stands
\* for them all.
LiveSessions ==
    {[exists |-> TRUE, active |-> a, hasRequests |-> FALSE, requests |-> {}] :
        a \in BOOLEAN}
    \cup
    {[exists |-> TRUE, active |-> TRUE, hasRequests |-> TRUE, requests |-> r] :
        r \in SUBSET RequestIds}

\* ------------------------------------------------------------------ Map helpers

EmptyMap == [x \in {} |-> 0]
MapHas(m, key) == key \in DOMAIN m
MapSet(m, key, v) == [x \in (DOMAIN m) \cup {key} |-> IF x = key THEN v ELSE m[x]]
MapDelete(m, key) == [x \in (DOMAIN m) \ {key} |-> m[x]]
MapValues(m) == {m[x] : x \in DOMAIN m}

\* ------------------------------------------------------------------ observation

\* ev: the sync event handled; fired: the timer whose callback ran; cancelled:
\* the timers cleared; invoked: the channel calls made, in order; failed: the
\* channels whose call threw or rejected; finished: the dispatch that ended.
NoObs == [ev |-> <<>>, fired |-> <<>>, cancelled |-> {}, invoked |-> <<>>,
          failed |-> {}, finished |-> <<>>]

Call(kind, ch, sid, sess) == [kind |-> kind, ch |-> ch, sid |-> sid, sess |-> sess]

\* ------------------------------------------------------------------ timers

\* Mutant: clearing a timer has no effect.
clearTimeout_Noop(ts, handle) == ts

\* clearTimeout(handle)
clearTimeout(ts, handle) == {t \in ts : t.h # handle}

\* The handles no scheduled timer and no map entry holds.
FreeHandles(ts, deb) == Handles \ ({t.h : t \in ts} \cup MapValues(deb))

\* setTimeout(cb, ms): a new Timeout object, due ms from now.
setTimeout(ts, handle, sid, ms) == ts \cup {[h |-> handle, sid |-> sid, due |-> now + ms]}

\* ------------------------------------------------------------------ NotificationHub

\* Mutant: no session is ever notifiable.
getNotifiableSession_Never(sess) == FALSE

\* getNotifiableSession: the session, when it exists and is active.
getNotifiableSession(sess) == sess.exists /\ sess.active

\* Mutant: the loop has no try/catch around the channel call.
ErrorNotCaught == FALSE

\* try { await channel.send...(session) } catch (error) { console.error(...) }
ErrorCaughtInLoop == TRUE

\* The for-loop of notifyReady / notifyPermission from channel k on, where the
\* channels of `throwing` throw synchronously when called: the channels called
\* in this synchronous run, and the channel whose promise the loop then awaits
\* (0: the loop has ended).
RECURSIVE NotifyLoop(_, _)
NotifyLoop(k, throwing) ==
    IF k > NumChannels THEN [inv |-> <<>>, wait |-> 0]
    ELSE IF k \in throwing
         THEN IF ErrorCaughtInLoop
              THEN LET rest == NotifyLoop(k + 1, throwing)
                   IN  [inv |-> <<k>> \o rest.inv, wait |-> rest.wait]
              ELSE [inv |-> <<k>>, wait |-> 0]
         ELSE [inv |-> <<k>>, wait |-> k]

\* The loop run from channel k for a dispatch of `kind` with `sess`, the other
\* dispatches in flight being `others`; the dispatch joins them while it awaits
\* a channel.
RunNotify(kind, sid, sess, k, throwing, rejected, others, ev, fired) ==
    LET run == NotifyLoop(k, throwing)
        calls == [i \in 1..Len(run.inv) |-> Call(kind, run.inv[i], sid, sess)]
    IN  /\ tasks' = IF run.wait = 0 THEN others
                    ELSE others (+) SetToBag({[kind |-> kind, sid |-> sid, sess |-> sess,
                                               ch |-> run.wait]})
        /\ obs' = [ev |-> ev, fired |-> fired, cancelled |-> {}, invoked |-> calls,
                   failed |-> rejected \cup {run.inv[i] : i \in {j \in 1..Len(run.inv) :
                                                                 run.inv[j] \in throwing}},
                   finished |-> IF run.wait = 0
                                THEN <<[kind |-> kind, sid |-> sid,
                                        last |-> run.inv[Len(run.inv)]]>>
                                ELSE <<>>]

\* Mutant: dispatches are serialized, a new one waits behind a hung one.
StartNotify_Serialized(kind, sid, sess, ev, fired) ==
    IF hung # {}
    THEN /\ UNCHANGED tasks
         /\ obs' = [NoObs EXCEPT !.ev = ev, !.fired = fired]
    ELSE \E throwing \in SUBSET Channels :
            /\ BagCardinality(tasks) < MaxTasks
            /\ RunNotify(kind, sid, sess, 1, throwing, {}, tasks, ev, fired)

\* notifyReady(session) / notifyPermission(session), called from the start.
StartNotify(kind, sid, sess, ev, fired) ==
    \E throwing \in SUBSET Channels :
        /\ BagCardinality(tasks) < MaxTasks
        /\ RunNotify(kind, sid, sess, 1, throwing, {}, tasks, ev, fired)

\* Mutant: the pending timer is not cleared.
CancelExisting_NoClear(sid) == timers

\* The timer queue after `if (existingTimer) clearTimeout(existingTimer)`.
CancelExisting(sid) ==
    IF MapHas(notificationDebounce, sid)
    THEN clearTimeout(timers, notificationDebounce[sid])
    ELSE timers

\* Mutant: the ready timestamp survives the clearing.
clearSessionState_KeepsReady(sid, ev) ==
    /\ timers' = CancelExisting(sid)
    /\ obs' = [NoObs EXCEPT !.ev = ev, !.cancelled = timers \ CancelExisting(sid)]
    /\ notificationDebounce' = MapDelete(notificationDebounce, sid)
    /\ lastKnownRequests' = MapDelete(lastKnownRequests, sid)
    /\ UNCHANGED lastReadyNotificationAt

\* Mutant: clearing one session forgets the recorded ids of every session.
clearSessionState_ForgetsAll(sid, ev) ==
    /\ timers' = CancelExisting(sid)
    /\ obs' = [NoObs EXCEPT !.ev = ev, !.cancelled = timers \ CancelExisting(sid)]
    /\ notificationDebounce' = MapDelete(notificationDebounce, sid)
    /\ lastKnownRequests' = EmptyMap
    /\ lastReadyNotificationAt' = MapDelete(lastReadyNotificationAt, sid)

\* Mutant: the recorded request ids survive the clearing.
clearSessionState_KeepsRequests(sid, ev) ==
    /\ timers' = CancelExisting(sid)
    /\ obs' = [NoObs EXCEPT !.ev = ev, !.cancelled = timers \ CancelExisting(sid)]
    /\ notificationDebounce' = MapDelete(notificationDebounce, sid)
    /\ lastReadyNotificationAt' = MapDelete(lastReadyNotificationAt, sid)
    /\ UNCHANGED lastKnownRequests

clearSessionState(sid, ev) ==
    /\ timers' = CancelExisting(sid)
    /\ obs' = [NoObs EXCEPT !.ev = ev, !.cancelled = timers \ CancelExisting(sid)]
    /\ notificationDebounce' = MapDelete(notificationDebounce, sid)
    /\ lastKnownRequests' = MapDelete(lastKnownRequests, sid)
    /\ lastReadyNotificationAt' = MapDelete(lastReadyNotificationAt, sid)

\* Mutant: any change of the set counts as new.
hasNewRequests_Differs(newRequestIds, oldRequestIds) == newRequestIds # oldRequestIds

\* for (const requestId of newRequestIds) if (!oldRequestIds.has(requestId)) ...
hasNewRequests(newRequestIds, oldRequestIds) ==
    \E requestId \in newRequestIds : requestId \notin oldRequestIds

\* Mutant: the recorded set accumulates every id seen.
RecordRequests_Union(oldRequestIds, newRequestIds) == oldRequestIds \cup newRequestIds

\* The set stored by this.lastKnownRequests.set(session.id, newRequestIds).
RecordRequests(oldRequestIds, newRequestIds) == newRequestIds

\* Mutant: an event that shows no pending request cancels the pending timer.
checkForPermissionNotification_CancelsResolved(sid, sess, ev) ==
    /\ UNCHANGED lastReadyNotificationAt
    /\ IF ~sess.hasRequests
       THEN /\ UNCHANGED <<lastKnownRequests, notificationDebounce, timers>>
            /\ obs' = [NoObs EXCEPT !.ev = ev]
       ELSE LET newRequestIds == sess.requests
                oldRequestIds == IF MapHas(lastKnownRequests, sid)
                                 THEN lastKnownRequests[sid] ELSE {}
                kept == CancelExisting(sid)
                free == FreeHandles(kept, MapDelete(notificationDebounce, sid))
            IN  /\ lastKnownRequests' = MapSet(lastKnownRequests, sid, newRequestIds)
                /\ IF newRequestIds = {}
                   THEN /\ timers' = kept
                        /\ notificationDebounce' = MapDelete(notificationDebounce, sid)
                        /\ obs' = [NoObs EXCEPT !.ev = ev, !.cancelled = timers \ kept]
                   ELSE IF ~hasNewRequests(newRequestIds, oldRequestIds)
                   THEN /\ UNCHANGED <<notificationDebounce, timers>>
                        /\ obs' = [NoObs EXCEPT !.ev = ev]
                   ELSE /\ free # {}
                        /\ obs' = [NoObs EXCEPT !.ev = ev, !.cancelled = timers \ kept]
                        /\ LET timer == CHOOSE h \in free : \A g \in free : h <= g
                           IN  /\ timers' = setTimeout(kept, timer, sid, PermissionDebounceMs)
                               /\ notificationDebounce' =
                                      MapSet(notificationDebounce, sid, timer)

checkForPermissionNotification(sid, sess, ev) ==
    /\ UNCHANGED lastReadyNotificationAt
    /\ IF ~sess.hasRequests
       THEN /\ UNCHANGED <<lastKnownRequests, notificationDebounce, timers>>
            /\ obs' = [NoObs EXCEPT !.ev = ev]
       ELSE LET newRequestIds == sess.requests
                oldRequestIds == IF MapHas(lastKnownRequests, sid)
                                 THEN lastKnownRequests[sid] ELSE {}
            IN  /\ lastKnownRequests' =
                       MapSet(lastKnownRequests, sid,
                              RecordRequests(oldRequestIds, newRequestIds))
                /\ IF ~hasNewRequests(newRequestIds, oldRequestIds)
                   THEN /\ UNCHANGED <<notificationDebounce, timers>>
                        /\ obs' = [NoObs EXCEPT !.ev = ev]
                   ELSE LET kept == CancelExisting(sid)
                            free == FreeHandles(kept, MapDelete(notificationDebounce, sid))
                        IN  /\ free # {}
                            /\ obs' = [NoObs EXCEPT !.ev = ev, !.cancelled = timers \ kept]
                            /\ LET timer == CHOOSE h \in free : \A g \in free : h <= g
                               IN  /\ timers' = setTimeout(kept, timer, sid, PermissionDebounceMs)
                                   /\ notificationDebounce' =
                                          MapSet(notificationDebounce, sid, timer)

\* Mutant: the cooldown lasts one millisecond longer.
InCooldown_Inclusive(at, last) == at - last <= ReadyCooldownMs

\* now - last < this.readyCooldownMs
InCooldown(at, last) == at - last < ReadyCooldownMs

\* Mutant: the time of the notification is not written before the dispatch.
sendReadyNotification_NoWrite(sid, sess, ev) ==
    LET last == IF MapHas(lastReadyNotificationAt, sid)
                THEN lastReadyNotificationAt[sid] ELSE 0
    IN  IF ~getNotifiableSession(sess) \/ InCooldown(now, last)
        THEN /\ UNCHANGED <<lastReadyNotificationAt, tasks>>
             /\ obs' = [NoObs EXCEPT !.ev = ev]
        ELSE /\ UNCHANGED lastReadyNotificationAt
             /\ StartNotify("sendReady", sid, sess, ev, <<>>)

\* sendReadyNotification(sessionId), up to its first await.
sendReadyNotification(sid, sess, ev) ==
    LET last == IF MapHas(lastReadyNotificationAt, sid)
                THEN lastReadyNotificationAt[sid] ELSE 0
    IN  IF ~getNotifiableSession(sess) \/ InCooldown(now, last)
        THEN /\ UNCHANGED <<lastReadyNotificationAt, tasks>>
             /\ obs' = [NoObs EXCEPT !.ev = ev]
        ELSE /\ lastReadyNotificationAt' = MapSet(lastReadyNotificationAt, sid, now)
             /\ StartNotify("sendReady", sid, sess, ev, <<>>)

\* handleSyncEvent(event), with `ns` the Sync Engine's sessions when the event
\* is delivered.
handleSyncEvent(event, ns) ==
    LET sid == event.sessionId
        ev == <<[type |-> event.type, sessionId |-> sid,
                 eventType |-> extractMessageEventType(event)]>>
    IN  IF event.type \in {"session-updated", "session-added"}
        THEN /\ IF ~ns[sid].exists \/ ~ns[sid].active
                THEN clearSessionState(sid, ev)
                ELSE checkForPermissionNotification(sid, ns[sid], ev)
             /\ UNCHANGED <<subscribed, tasks>>
        ELSE IF event.type = "session-removed"
        THEN /\ clearSessionState(sid, ev)
             /\ UNCHANGED <<subscribed, tasks>>
        ELSE IF event.type = "message-received"
                /\ extractMessageEventType(event) = JString("ready")
        THEN /\ sendReadyNotification(sid, ns[sid], ev)
             /\ UNCHANGED <<subscribed, lastKnownRequests, notificationDebounce, timers>>
        ELSE /\ UNCHANGED hubVars
             /\ obs' = [NoObs EXCEPT !.ev = ev]

\* ------------------------------------------------------------------ Sync Engine

SessionEvent(type, sid) ==
    [type |-> type, sessionId |-> sid, message |-> JUndefined, data |-> JUndefined]

MessageEvent(sid, content) ==
    [type |-> "message-received", sessionId |-> sid,
     message |-> [k |-> "object", content |-> content], data |-> JUndefined]

ReadyWrapped ==
    JObject(JUndefined, JUndefined,
            JObject(JString("event"), JObject(JString("ready"), JUndefined, JUndefined),
                    JUndefined))
ReadyDirect ==
    JObject(JString("event"), JObject(JString("ready"), JUndefined, JUndefined), JUndefined)
TextWrapped ==
    JObject(JUndefined, JUndefined, JObject(JString("text"), JUndefined, JUndefined))

HubMessageContents == {ReadyWrapped, ReadyDirect, TextWrapped}

\* emit(event): every subscribed listener runs synchronously.
emit(event, ns) ==
    /\ sessions' = ns
    /\ UNCHANGED now
    /\ IF subscribed
       THEN handleSyncEvent(event, ns)
       ELSE /\ UNCHANGED hubVars
            /\ obs' = NoObs

\* A session is created with one of `values`.
SessionAdded(sid, values) ==
    /\ ~sessions[sid].exists
    /\ \E v \in values :
           emit(SessionEvent("session-added", sid), [sessions EXCEPT ![sid] = v])

\* A session is updated to one of `values` (or only touched).
SessionUpdated(sid, values) ==
    /\ sessions[sid].exists
    /\ \E v \in values :
           emit(SessionEvent("session-updated", sid), [sessions EXCEPT ![sid] = v])

SessionRemoved(sid) ==
    /\ sessions[sid].exists
    /\ emit(SessionEvent("session-removed", sid), [sessions EXCEPT ![sid] = NoSession])

\* An update event delivered for a session the engine no longer holds.
SessionUpdatedMissing(sid) ==
    /\ ~sessions[sid].exists
    /\ emit(SessionEvent("session-updated", sid), sessions)

MessageReceived(sid) ==
    \E content \in HubMessageContents : emit(MessageEvent(sid, content), sessions)

\* ------------------------------------------------------------------ timers, channels, stop

\* Whether Node runs the callback of timer t now.
TimerDue(t) == now >= t.due

\* The debounce callback: delete the map entry, then sendPermissionNotification.
TimerFire ==
    \E t \in timers :
        /\ TimerDue(t)
        /\ timers' = timers \ {t}
        /\ notificationDebounce' = MapDelete(notificationDebounce, t.sid)
        /\ UNCHANGED <<sessions, now, subscribed, lastKnownRequests, lastReadyNotificationAt>>
        /\ IF getNotifiableSession(sessions[t.sid])
           THEN StartNotify("sendPermissionRequest", t.sid, sessions[t.sid], <<>>, <<t>>)
           ELSE /\ UNCHANGED tasks
                /\ obs' = [NoObs EXCEPT !.fired = <<t>>]

\* Mutant: after a channel's call settles the loop starts over at the first
\* channel.
ChannelSettles_Restarts ==
    \E task \in BagToSet(tasks), throwing \in SUBSET Channels :
        /\ UNCHANGED <<sessions, now, subscribed, lastKnownRequests,
                       notificationDebounce, lastReadyNotificationAt, timers>>
        /\ RunNotify(task.kind, task.sid, task.sess, 1, throwing, {},
                     tasks (-) SetToBag({task}), <<>>, <<>>)

\* The promise of the channel call a task awaits settles; the loop goes on.
ChannelSettles ==
    \E task \in BagToSet(tasks), outcome \in {"resolved", "rejected"} :
        \E throwing \in SUBSET ((task.ch + 1)..NumChannels) :
            /\ UNCHANGED <<sessions, now, subscribed, lastKnownRequests,
                           notificationDebounce, lastReadyNotificationAt, timers>>
            /\ LET others == tasks (-) SetToBag({task})
                   rejected == IF outcome = "rejected" THEN {task.ch} ELSE {}
               IN  IF (outcome = "rejected" /\ ~ErrorCaughtInLoop) \/ task.ch = NumChannels
                   THEN /\ tasks' = others
                        /\ obs' = [NoObs EXCEPT !.failed = rejected,
                                                !.finished =
                                      <<[kind |-> task.kind, sid |-> task.sid,
                                         last |-> task.ch]>>]
                   ELSE RunNotify(task.kind, task.sid, task.sess, task.ch + 1, throwing,
                                  rejected, others, <<>>, <<>>)

\* Mutant: stop forgets to clear the recorded request sets.
\* Dispatches whose channel call may hang for good, and the session they are for.
MaxHung == 1
Hanging == {"s1"}

\* The promise of the channel call a task awaits never settles: the loop of
\* that dispatch never resumes.
ChannelHangs ==
    \E task \in BagToSet(tasks) :
        /\ Cardinality(hung) < MaxHung
        /\ task.sid \in Hanging
        /\ tasks' = tasks (-) SetToBag({task})
        /\ hung' = hung \cup {task}
        /\ obs' = NoObs
        /\ UNCHANGED <<sessions, now, subscribed, lastKnownRequests,
                       notificationDebounce, lastReadyNotificationAt, timers>>

stop_KeepsRequests ==
    /\ subscribed' = FALSE
    /\ timers' = {t \in timers : t.h \notin MapValues(notificationDebounce)}
    /\ notificationDebounce' = EmptyMap
    /\ lastReadyNotificationAt' = EmptyMap
    /\ UNCHANGED <<sessions, now, tasks, lastKnownRequests>>
    /\ obs' = [NoObs EXCEPT !.cancelled =
                  {t \in timers : t.h \in MapValues(notificationDebounce)}]

stop ==
    /\ subscribed' = FALSE
    /\ timers' = {t \in timers : t.h \notin MapValues(notificationDebounce)}
    /\ notificationDebounce' = EmptyMap
    /\ lastKnownRequests' = EmptyMap
    /\ lastReadyNotificationAt' = EmptyMap
    /\ UNCHANGED <<sessions, now, tasks>>
    /\ obs' = [NoObs EXCEPT !.cancelled =
                  {t \in timers : t.h \in MapValues(notificationDebounce)}]

Tick ==
    /\ now < StartTime + MaxTime
    /\ now' = now + 1
    /\ UNCHANGED <<sessions, hubVars>>
    /\ obs' = NoObs


\* ------------------------------------------------------------------ message store

\* Messages table capacity and clock horizon of the store's runs.
MaxRows == 3
MaxClock == 1

LocalIds == {"l1", "l2"}
\* The localId argument: omitted, the empty string, or a client-supplied id.
LocalIdArgs == {JUndefined, JString("")} \cup {JString(l) : l \in LocalIds}
\* Message payloads handed to addMessage.
JNaN == JNumber("NaN")
Contents == {JString("a"), JNaN}

\* JSON.stringify(content): a string is quoted, NaN becomes null.
JSONstringify(value) ==
    IF value.k = "string" THEN [json |-> "string", s |-> value.s]
    ELSE [json |-> "null"]

\* safeJsonParse(text)
safeJsonParse(text) ==
    IF text.json = "string" THEN JString(text.s) ELSE JNull

toStoredMessage(row) ==
    [id |-> row.id, sessionId |-> row.session_id, content |-> safeJsonParse(row.content),
     createdAt |-> row.created_at, seq |-> row.seq, localId |-> row.local_id]

SetMax(S) == IF S = {} THEN 0 ELSE CHOOSE n \in S : \A m \in S : m <= n

SessionRows(db, sessionId) == {r \in db : r.session_id = sessionId}

\* SELECT COALESCE(MAX(seq), 0) FROM messages WHERE session_id = ?
getMaxSeq(db, sessionId) == SetMax({r.seq : r \in SessionRows(db, sessionId)})

\* idx_messages_local_id: UNIQUE (session_id, local_id) WHERE local_id IS NOT NULL
UniqueLocalId(db) ==
    \A r1, r2 \in db :
        (r1.session_id = r2.session_id /\ r1.local_id = r2.local_id
            /\ r1.local_id # JNull) => r1 = r2

\* A JavaScript truthy test of the localId argument.
Truthy(localId) == localId.k = "string" /\ localId.s # ""

\* localId ?? null
OrNull(localId) == IF localId.k \in {"undefined", "null"} THEN JNull ELSE localId

\* Mutant: seq counts the rows of the whole table.
NewRow_GlobalSeq(db, sessionId, content, localId, at) ==
    [id |-> Cardinality(db) + 1, session_id |-> sessionId,
     content |-> JSONstringify(content), created_at |-> at,
     seq |-> Cardinality(db) + 1, local_id |-> OrNull(localId)]

\* The row addMessage inserts: seq is the session's maximum plus one.
NewRow(db, sessionId, content, localId, at) ==
    [id |-> Cardinality(db) + 1, session_id |-> sessionId,
     content |-> JSONstringify(content), created_at |-> at,
     seq |-> getMaxSeq(db, sessionId) + 1, local_id |-> OrNull(localId)]

\* Mutant: the lookup forgets the session.
ExistingRows_AnySession(db, sessionId, localId) == {r \in db : r.local_id = localId}

\* The row `SELECT * ... WHERE session_id = ? AND local_id = ? LIMIT 1` finds.
ExistingRows(db, sessionId, localId) ==
    {r \in db : r.session_id = sessionId /\ r.local_id = localId}

\* addMessage(db, sessionId, content, localId) at time `at`: the table afterwards
\* and the message returned, or the failure of the INSERT.
addMessage(db, sessionId, content, localId, at) ==
    IF Truthy(localId) /\ ExistingRows(db, sessionId, localId) # {}
    THEN [status |-> "ok", db |-> db,
          msg |-> <<toStoredMessage(CHOOSE r \in ExistingRows(db, sessionId, localId) : TRUE)>>]
    ELSE LET row == NewRow(db, sessionId, content, localId, at)
         IN  IF UniqueLocalId(db \cup {row})
             THEN [status |-> "ok", db |-> db \cup {row}, msg |-> <<toStoredMessage(row)>>]
             ELSE [status |-> "threw", db |-> db, msg |-> <<>>]

\* UPDATE messages SET seq = seq + ? WHERE session_id = ?
ShiftSeq(db, by, sessionId) ==
    {IF r.session_id = sessionId THEN [r EXCEPT !.seq = r.seq + by] ELSE r : r \in db}

\* Mutant: the moved session's messages are shifted past the target's.
MergeShift_From(db, fromSessionId, toSessionId, oldMaxSeq, newMaxSeq) ==
    IF newMaxSeq > 0 /\ oldMaxSeq > 0 THEN ShiftSeq(db, newMaxSeq, fromSessionId) ELSE db

\* Mutant: the target's messages are shifted by the target's own maximum.
MergeShift_ByTargetMax(db, fromSessionId, toSessionId, oldMaxSeq, newMaxSeq) ==
    IF newMaxSeq > 0 /\ oldMaxSeq > 0 THEN ShiftSeq(db, newMaxSeq, toSessionId) ELSE db

\* Mutant: the first UPDATE is left out.
MergeShift_Skipped(db, fromSessionId, toSessionId, oldMaxSeq, newMaxSeq) == db

\* The first UPDATE of mergeSessionMessages, run when both sessions hold messages.
MergeShift(db, fromSessionId, toSessionId, oldMaxSeq, newMaxSeq) ==
    IF newMaxSeq > 0 /\ oldMaxSeq > 0 THEN ShiftSeq(db, oldMaxSeq, toSessionId) ELSE db

\* SELECT local_id ... INTERSECT SELECT local_id ...
Collisions(db, fromSessionId, toSessionId) ==
    {r.local_id : r \in {x \in SessionRows(db, toSessionId) : x.local_id # JNull}}
    \cap
    {r.local_id : r \in {x \in SessionRows(db, fromSessionId) : x.local_id # JNull}}

\* Mutant: the target's colliding local ids are nulled.
MergeNullCollisions_Target(db, fromSessionId, toSessionId) ==
    LET localIds == Collisions(db, fromSessionId, toSessionId)
    IN  {IF r.session_id = toSessionId /\ r.local_id \in localIds
         THEN [r EXCEPT !.local_id = JNull] ELSE r : r \in db}

\* UPDATE messages SET local_id = NULL WHERE session_id = ? AND local_id IN (...)
MergeNullCollisions(db, fromSessionId, toSessionId) ==
    LET localIds == Collisions(db, fromSessionId, toSessionId)
    IN  {IF r.session_id = fromSessionId /\ r.local_id \in localIds
         THEN [r EXCEPT !.local_id = JNull] ELSE r : r \in db}

\* UPDATE messages SET session_id = ? WHERE session_id = ?
MergeReassign(db, fromSessionId, toSessionId) ==
    {IF r.session_id = fromSessionId THEN [r EXCEPT !.session_id = toSessionId] ELSE r :
        r \in db}

\* Mutant: the catch block rethrows without ROLLBACK.
Rollback_Keep(atBegin, current) == current

\* db.exec('ROLLBACK'): the table as it was at BEGIN.
Rollback(atBegin, current) == atBegin

\* The statements of the transaction at which an injected failure may strike
\* ("none": every statement succeeds).
FailPoints == {"none", "shift", "select", "null", "reassign", "commit"}

\* mergeSessionMessages(db, fromSessionId, toSessionId), the statement `failAt`
\* failing (a failing statement changes nothing).
mergeSessionMessages(db, fromSessionId, toSessionId, failAt) ==
    IF fromSessionId = toSessionId
    THEN [status |-> "ok", db |-> db, moved |-> 0, oldMaxSeq |-> 0, newMaxSeq |-> 0]
    ELSE LET oldMaxSeq == getMaxSeq(db, fromSessionId)
             newMaxSeq == getMaxSeq(db, toSessionId)
             shifted == MergeShift(db, fromSessionId, toSessionId, oldMaxSeq, newMaxSeq)
             nulled == MergeNullCollisions(shifted, fromSessionId, toSessionId)
             moved == MergeReassign(nulled, fromSessionId, toSessionId)
             threw(current) ==
                 [status |-> "threw", db |-> Rollback(db, current), moved |-> 0,
                  oldMaxSeq |-> oldMaxSeq, newMaxSeq |-> newMaxSeq]
         IN  IF failAt = "shift" THEN threw(db)
             ELSE IF failAt = "select" THEN threw(shifted)
             ELSE IF failAt = "null" THEN threw(shifted)
             ELSE IF failAt = "reassign" \/ ~UniqueLocalId(moved) THEN threw(nulled)
             ELSE IF failAt = "commit" THEN threw(moved)
             ELSE [status |-> "ok", db |-> moved,
                   moved |-> Cardinality(SessionRows(nulled, fromSessionId)),
                   oldMaxSeq |-> oldMaxSeq, newMaxSeq |-> newMaxSeq]

\* Whether statement `failAt` is executed by this call at all.
Executes(db, fromSessionId, toSessionId, failAt) ==
    CASE failAt = "shift" ->
            getMaxSeq(db, fromSessionId) > 0 /\ getMaxSeq(db, toSessionId) > 0
      [] failAt = "null" -> Collisions(db, fromSessionId, toSessionId) # {}
      [] OTHER -> TRUE

NoRet == [op |-> "none"]

\* A call of addMessage with a payload of `contents` and a localId of `localIds`.
AddMessage(contents, localIds) ==
    \E sessionId \in Sessions, content \in contents, localId \in localIds :
        LET r == addMessage(messages, sessionId, content, localId, now)
        IN  /\ Cardinality(r.db) <= MaxRows
            /\ messages' = r.db
            /\ ret' = [op |-> "addMessage", sessionId |-> sessionId, localId |-> localId,
                       content |-> content, status |-> r.status, msg |-> r.msg]
            /\ UNCHANGED <<sessions, now, hubVars, obs>>

MergeSessionMessages ==
    \E fromSessionId \in Sessions, toSessionId \in Sessions, failAt \in FailPoints :
        /\ fromSessionId # toSessionId \/ failAt = "none"
        /\ Executes(messages, fromSessionId, toSessionId, failAt)
        /\ LET r == mergeSessionMessages(messages, fromSessionId, toSessionId, failAt)
           IN  /\ messages' = r.db
               /\ ret' = [op |-> "mergeSessionMessages", from |-> fromSessionId,
                          to |-> toSessionId, failAt |-> failAt, status |-> r.status,
                          moved |-> r.moved, oldMaxSeq |-> r.oldMaxSeq,
                          newMaxSeq |-> r.newMaxSeq,
                          collisions |-> Collisions(messages, fromSessionId, toSessionId)]
        /\ UNCHANGED <<sessions, now, hubVars, obs>>

\* Date.now() advances between two store calls.
StoreTick ==
    /\ now < StartTime + MaxClock
    /\ now' = now + 1
    /\ UNCHANGED <<sessions, hubVars, obs, messages>>
    /\ ret' = NoRet

\* ------------------------------------------------------------------ specification

vars == <<sessions, now, subscribed, lastKnownRequests, notificationDebounce,
          lastReadyNotificationAt, timers, tasks, obs, messages, ret, readyLog,
          idHistory, hung, held, writers, database, created, lapsed, config, terminals>>

Init ==
    /\ sessions = [s \in Sessions |-> NoSession]
    /\ now = StartTime
    /\ subscribed = TRUE
    /\ lastKnownRequests = EmptyMap
    /\ notificationDebounce = EmptyMap
    /\ lastReadyNotificationAt = EmptyMap
    /\ timers = {}
    /\ tasks = EmptyBag
    /\ obs = NoObs
    /\ messages = {}
    /\ ret = NoRet
    /\ readyLog = [s \in Sessions |-> [c \in Channels |-> -1]]
    /\ idHistory = [s \in Sessions |-> [ever |-> {}, gone |-> {}, last |-> {}]]
    /\ hung = {}
    /\ held = {}
    /\ writers = [w \in Writers |-> IdleWriter]
    /\ database = NewDatabase
    /\ created = {}
    /\ lapsed = [s \in Sessions |-> NoLapse]
    /\ config = InitialConfig
    /\ terminals = NoTerminals

\* Spec drives the sessions of Driven; the hub keys all its state by session id.
Driven == {"s1"}

\* A step of the hub leaves the store alone, and the other way round.
HubOnly == UNCHANGED <<messages, ret, readyLog, idHistory, hung, held, writers, database, created, lapsed, config, terminals>>

Next ==
    \/ \E sid \in Driven : SessionAdded(sid, LiveSessions) /\ HubOnly
    \/ \E sid \in Driven : SessionUpdated(sid, LiveSessions) /\ HubOnly
    \/ \E sid \in Driven : SessionRemoved(sid) /\ HubOnly
    \/ \E sid \in Driven : SessionUpdatedMissing(sid) /\ HubOnly
    \/ \E sid \in Driven : MessageReceived(sid) /\ HubOnly
    \/ TimerFire /\ HubOnly
    \/ ChannelSettles /\ HubOnly
    \/ stop /\ HubOnly
    \/ Tick /\ HubOnly

\* The NotificationHub.
Spec == Init /\ [][Next]_vars

\* A session that is active and has no requests map (agentState null): the
\* permission path stays idle.
ActivePlainSessions == {v \in LiveSessions : v.active /\ ~v.hasRequests}

\* The time of the sendReady calls of this step, per session and channel.
LogReady ==
    [s \in Sessions |-> [c \in Channels |->
        IF \E i \in 1..Len(obs'.invoked) :
               obs'.invoked[i] = Call("sendReady", c, s, obs'.invoked[i].sess)
        THEN now'
        ELSE readyLog[s][c]]]

Logged == readyLog' = LogReady /\ UNCHANGED <<messages, ret, idHistory, hung, held, writers, database, created, lapsed, config, terminals>>

\* Sessions are created and touched but stay active.
ReadyNext ==
    \/ \E sid \in Sessions : SessionAdded(sid, ActivePlainSessions) /\ Logged
    \/ \E sid \in Sessions : SessionUpdated(sid, ActivePlainSessions) /\ Logged
    \/ \E sid \in Sessions : MessageReceived(sid) /\ Logged
    \/ ChannelSettles /\ Logged
    \/ stop /\ Logged
    \/ Tick /\ Logged

\* The NotificationHub on the ready path, for sessions that stay active, with
\* the history of sendReady calls.
ReadySpec == Init /\ [][ReadyNext]_vars

\* mergeSessionMessages reads and writes seq, local_id and session_id only:
\* StoreSpec inserts one payload, at one time.
StoreNext ==
    \/ AddMessage({JString("a")}, LocalIdArgs) /\ UNCHANGED <<readyLog, idHistory, hung, held, writers, database, created, lapsed, config, terminals>>
    \/ MergeSessionMessages /\ UNCHANGED <<readyLog, idHistory, hung, held, writers, database, created, lapsed, config, terminals>>

\* The messages table under addMessage and mergeSessionMessages.
StoreSpec == Init /\ [][StoreNext]_vars

\* AddSpec replays one client id, with either payload, at any time.
AddNext ==
    \/ AddMessage(Contents, {JUndefined, JString("l1")}) /\ UNCHANGED <<readyLog, idHistory, hung, held, writers, database, created, lapsed, config, terminals>>
    \/ StoreTick /\ UNCHANGED <<readyLog, idHistory, hung, held, writers, database, created, lapsed, config, terminals>>

\* The messages table under addMessage alone.
AddSpec == Init /\ [][AddNext]_vars

\* Sessions that are active, with or without a requests map.
ActiveSessions == {v \in LiveSessions : v.active}

\* The history of a session's events: ever, the ids some event showed pending;
\* gone, those of them a later event showed absent; last, the ids of the last
\* event that showed a requests map.
TrackIds ==
    idHistory' = [s \in Sessions |->
        IF obs'.ev # <<>> /\ obs'.ev[1].sessionId = s
        THEN LET cur == IF sessions'[s].hasRequests THEN sessions'[s].requests ELSE {}
             IN  [ever |-> idHistory[s].ever \cup cur,
                  gone |-> idHistory[s].gone \cup (idHistory[s].ever \ cur),
                  last |-> IF sessions'[s].hasRequests THEN cur ELSE idHistory[s].last]
        ELSE idHistory[s]]

Tracked == TrackIds /\ UNCHANGED <<messages, ret, readyLog, hung, held, writers, database, created, lapsed, config, terminals>>

\* The session is created and updated but stays active.
PermNext ==
    \/ \E sid \in Driven : SessionAdded(sid, ActiveSessions) /\ Tracked
    \/ \E sid \in Driven : SessionUpdated(sid, ActiveSessions) /\ Tracked
    \/ TimerFire /\ Tracked
    \/ ChannelSettles /\ Tracked
    \/ Tick /\ Tracked

\* The NotificationHub on the permission path, for a session that stays
\* active, with the history of the ids that went away.
PermSpec == Init /\ [][PermNext]_vars

\* Active sessions with no requests map or with one pending request.
HungSessions == {v \in ActiveSessions : v.hasRequests => v.requests = {"r1"}}

NoHang == UNCHANGED <<messages, ret, readyLog, idHistory, hung, held, writers, database, created, lapsed, config, terminals>>

\* Two sessions that stay active: s1 gets ready events and its channel calls
\* may hang, s2 gets session events and ready events.
HungNext ==
    \/ \E sid \in Hanging : SessionAdded(sid, ActivePlainSessions) /\ NoHang
    \/ \E sid \in Sessions \ Hanging : SessionAdded(sid, HungSessions) /\ NoHang
    \/ \E sid \in Sessions \ Hanging : SessionUpdated(sid, HungSessions) /\ NoHang
    \/ \E sid \in Sessions : MessageReceived(sid) /\ NoHang
    \/ TimerFire /\ NoHang
    \/ ChannelSettles /\ NoHang
    \/ ChannelHangs /\ UNCHANGED <<messages, ret, readyLog, idHistory, held, writers, database, created, lapsed, config, terminals>>
    \/ Tick /\ NoHang

\* The NotificationHub with channel calls that never settle.
HungSpec == Init /\ [][HungNext]_vars

\* ------------------------------------------------------------------ properties

Notifiable(v) == v.exists /\ v.active
CurrentIds(v) == IF v.hasRequests THEN v.requests ELSE {}
Known(sid) == IF sid \in DOMAIN lastKnownRequests THEN lastKnownRequests[sid] ELSE {}
TimersOf(ts, sid) == {t \in ts : t.sid = sid}
IsSessionEvent(o, sid) ==
    /\ o.ev # <<>>
    /\ o.ev[1].sessionId = sid
    /\ o.ev[1].type \in {"session-added", "session-updated"}
IsReadyEvent(o, sid) ==
    /\ o.ev # <<>>
    /\ o.ev[1].sessionId = sid
    /\ o.ev[1].type = "message-received"
    /\ o.ev[1].eventType = JString("ready")
InvokedChannels(o) == {o.invoked[i].ch : i \in 1..Len(o.invoked)}
\* One dispatch, one session value, each channel at most once and in list order.
OneDispatch(o) ==
    \A i, j \in 1..Len(o.invoked) :
        /\ o.invoked[i].kind = o.invoked[j].kind
        /\ o.invoked[i].sid = o.invoked[j].sid
        /\ o.invoked[i].sess = o.invoked[j].sess
        /\ i < j => o.invoked[i].ch < o.invoked[j].ch

\* C1: permission debounce. An event that introduces a new request id for an
\* active session cancels the timer pending for that session and leaves exactly
\* one, due permissionDebounceMs after this (the later) event; nothing is sent
\* by the event itself. When the timer fires, it is due, no other timer is left
\* for the session, and sendPermissionRequest goes once to the first channel
\* (and at most once to each) with the session as the Sync Engine holds it then.
C1_PermissionDebounce ==
    [][ /\ \A sid \in Sessions :
            ( /\ IsSessionEvent(obs', sid)
              /\ Notifiable(sessions'[sid])
              /\ CurrentIds(sessions'[sid]) \ Known(sid) # {} )
            => /\ obs'.cancelled = TimersOf(timers, sid)
               /\ sid \in DOMAIN notificationDebounce'
               /\ TimersOf(timers', sid) =
                     {[h |-> notificationDebounce'[sid], sid |-> sid,
                       due |-> now + PermissionDebounceMs]}
               /\ obs'.invoked = <<>>
        /\ obs'.fired # <<>> =>
            LET t == obs'.fired[1]
            IN  /\ t \in timers
                /\ now >= t.due
                /\ TimersOf(timers', t.sid) = {}
                /\ t.sid \notin DOMAIN notificationDebounce'
                /\ OneDispatch(obs')
                /\ IF Notifiable(sessions[t.sid])
                   THEN /\ obs'.invoked # <<>>
                        /\ obs'.invoked[1] =
                              Call("sendPermissionRequest", 1, t.sid, sessions[t.sid])
                   ELSE obs'.invoked = <<>>
      ]_vars

\* C1 witness: a second event with a new id arrives while the first timer is
\* not yet due; that timer is cancelled and a later one is scheduled.
C1_TimerRestarted ==
    /\ obs.ev # <<>>
    /\ \E t \in obs.cancelled, u \in timers :
          /\ t.sid = u.sid
          /\ now < t.due
          /\ t.due < u.due
          /\ u.due = now + PermissionDebounceMs

ReadyIff ==
    \A sid \in Sessions :
        /\ (IsReadyEvent(obs', sid) /\ Notifiable(sessions[sid])) =>
              LET last == IF sid \in DOMAIN lastReadyNotificationAt
                          THEN lastReadyNotificationAt[sid] ELSE 0
                  notified == \E i \in 1..Len(obs'.invoked) :
                                  /\ obs'.invoked[i].kind = "sendReady"
                                  /\ obs'.invoked[i].sid = sid
              IN  /\ notified <=> (now - last >= ReadyCooldownMs)
                  /\ notified =>
                        /\ obs'.invoked[1] = Call("sendReady", 1, sid, sessions[sid])
                        /\ sid \in DOMAIN lastReadyNotificationAt'
                        /\ lastReadyNotificationAt'[sid] = now
                  /\ ~notified => lastReadyNotificationAt' = lastReadyNotificationAt
        /\ (\E i \in 1..Len(obs'.invoked) :
                obs'.invoked[i] = Call("sendReady", 1, sid, obs'.invoked[i].sess))
              => IsReadyEvent(obs', sid) /\ Notifiable(sessions[sid])

\* No two sendReady calls for one session on a channel of `chs` less than
\* readyCooldownMs apart.
ReadyWindow(chs) ==
    \A i \in 1..Len(obs'.invoked) :
        LET c == obs'.invoked[i]
        IN  (c.kind = "sendReady" /\ c.ch \in chs) =>
                \/ readyLog[c.sid][c.ch] = -1
                \/ now - readyLog[c.sid][c.ch] >= ReadyCooldownMs

\* C2 as stated: a ready event for an active session is notified iff the
\* cooldown has passed, and every channel gets at most one sendReady in any
\* window shorter than readyCooldownMs.
C2_ReadyCooldownPerChannel == [][ReadyIff /\ ReadyWindow(Channels)]_vars

\* C2 amended: a ready event for an active session is notified iff the cooldown
\* has passed (recording the time of the notification), and the first channel
\* gets at most one sendReady in any window shorter than readyCooldownMs while
\* the session stays active.
C2_ReadyCooldown == [][ReadyIff /\ ReadyWindow({1})]_vars

\* C2 witness: a ready event for an active session is dropped inside the
\* cooldown started by an earlier notification.
C2_DroppedInCooldown ==
    \E sid \in Sessions :
        /\ IsReadyEvent(obs, sid)
        /\ Notifiable(sessions[sid])
        /\ obs.invoked = <<>>
        /\ sid \in DOMAIN lastReadyNotificationAt
        /\ lastReadyNotificationAt[sid] < now
        /\ now - lastReadyNotificationAt[sid] < ReadyCooldownMs

\* C3: every channel call the hub makes is for a session that exists and is
\* active in the Sync Engine at that moment.
C3_NotifiedOnlyWhileActive ==
    \A i \in 1..Len(obs.invoked) : Notifiable(sessions[obs.invoked[i].sid])

\* C4: permission dedup. An event for an active session whose pending ids are
\* all recorded changes no timer and sends nothing; an event with at least one
\* unrecorded id leaves exactly one timer for the session, due after the
\* debounce, however many ids are new; no step calls a channel twice.
C4_PermissionDedup ==
    [][ /\ \A sid \in Sessions :
            (IsSessionEvent(obs', sid) /\ Notifiable(sessions'[sid])) =>
                IF CurrentIds(sessions'[sid]) \subseteq Known(sid)
                THEN /\ timers' = timers
                     /\ notificationDebounce' = notificationDebounce
                     /\ obs'.cancelled = {}
                     /\ obs'.invoked = <<>>
                ELSE /\ Cardinality(TimersOf(timers', sid)) = 1
                     /\ \A t \in TimersOf(timers', sid) :
                            t.due = now + PermissionDebounceMs
                     /\ timers' \ TimersOf(timers', sid) = timers \ TimersOf(timers, sid)
                     /\ obs'.invoked = <<>>
        /\ OneDispatch(obs')
      ]_vars

\* C4 witness: an update of an active session that still shows only the
\* recorded id: no timer is pending afterwards.
C4_NothingNew ==
    \E sid \in Sessions :
        /\ IsSessionEvent(obs, sid)
        /\ Notifiable(sessions[sid])
        /\ sessions[sid].requests = {"r1"}
        /\ Known(sid) = {"r1"}
        /\ timers = {}
        /\ obs.cancelled = {}

\* C10: channel failure isolation. When a channel call throws or rejects, the
\* next channel of the list is called, a dispatch ends only after the last
\* channel, no channel is called twice, and the hub's request sets, timers and
\* cooldown timestamps are what the step sets without the failure.
C10_ChannelFailureIsolation ==
    [][ obs'.failed # {} =>
          /\ \A k \in obs'.failed : k < NumChannels => (k + 1) \in InvokedChannels(obs')
          /\ obs'.finished # <<>> => obs'.finished[1].last = NumChannels
          /\ OneDispatch(obs')
          /\ BagCardinality(tasks') <= BagCardinality(tasks) + 1
          /\ UNCHANGED <<lastKnownRequests, subscribed>>
          /\ (obs'.ev = <<>> /\ obs'.fired = <<>>) =>
                UNCHANGED <<timers, notificationDebounce, lastReadyNotificationAt>>
          /\ obs'.ev # <<>> =>
                /\ UNCHANGED <<timers, notificationDebounce>>
                /\ lastReadyNotificationAt' =
                      [x \in (DOMAIN lastReadyNotificationAt) \cup {obs'.ev[1].sessionId} |->
                          IF x = obs'.ev[1].sessionId THEN now
                          ELSE lastReadyNotificationAt[x]]
          /\ obs'.fired # <<>> =>
                /\ timers' = timers \ {obs'.fired[1]}
                /\ UNCHANGED lastReadyNotificationAt
      ]_vars

\* C10 witness: the first channel's call failed and the second channel was
\* called in the same step.
C10_NextChannelCalled ==
    /\ 1 \in obs.failed
    /\ 2 \in InvokedChannels(obs)

IsAdd(r) == r.op = "addMessage"
IsMerge(r) == r.op = "mergeSessionMessages"
RowsOf(db, sessionId) == {r \in db : r.session_id = sessionId}
Replayed(db, r) ==
    {m \in db : m.session_id = r.sessionId /\ m.local_id = r.localId}

\* C5: idempotent insert. addMessage with a non-empty localId that the session
\* already holds returns that stored message (id, seq, content, createdAt),
\* whatever content it carries, and leaves the table as it is (so the next seq
\* of the session too); a call the session holds no row for stores one row,
\* under its own sessionId and localId, and returns it; no addMessage ever
\* changes a stored row.
C5_IdempotentInsert ==
    [][ /\ ( /\ IsAdd(ret')
             /\ ret'.localId.k = "string"
             /\ ret'.localId.s # ""
             /\ Replayed(messages, ret') # {} )
            => /\ messages' = messages
               /\ ret'.status = "ok"
               /\ \E m \in Replayed(messages, ret') :
                     ret'.msg = <<[id |-> m.id, sessionId |-> m.session_id,
                                   content |-> safeJsonParse(m.content),
                                   createdAt |-> m.created_at, seq |-> m.seq,
                                   localId |-> m.local_id]>>
        /\ ( /\ IsAdd(ret')
             /\ ret'.status = "ok"
             /\ Replayed(messages, ret') = {} )
            => \E m \in messages' \ messages :
                  /\ messages' = messages \cup {m}
                  /\ m.session_id = ret'.sessionId
                  /\ m.local_id = OrNull(ret'.localId)
                  /\ m.content = JSONstringify(ret'.content)
                  /\ m.created_at = now
                  /\ ret'.msg = <<[id |-> m.id, sessionId |-> m.session_id,
                                   content |-> safeJsonParse(m.content),
                                   createdAt |-> m.created_at, seq |-> m.seq,
                                   localId |-> m.local_id]>>
        /\ messages \subseteq messages'
      ]_vars

\* C5 witness: a replay, later than the first call and with another payload,
\* returned the first call's message.
C5_ReplayReturnsFirst ==
    /\ IsAdd(ret)
    /\ ret.status = "ok"
    /\ ret.content = JNaN
    /\ ret.msg[1].content = JString("a")
    /\ ret.msg[1].createdAt < now

\* C6: seq monotonicity. After every addMessage each session's messages carry
\* exactly the seqs 1..n, in insertion order, and the call leaves the rows of
\* every other session as they are.
C6_SeqMonotonic ==
    [][ /\ \A s \in Sessions :
            LET rows == RowsOf(messages', s)
            IN  /\ {r.seq : r \in rows} = 1..Cardinality(rows)
                /\ \A r1, r2 \in rows : (r1.id < r2.id) <=> (r1.seq < r2.seq)
        /\ IsAdd(ret') =>
            \A s \in Sessions \ {ret'.sessionId} : RowsOf(messages', s) = RowsOf(messages, s)
      ]_vars

\* C6 witness: inserts interleaved over two sessions.
C6_Interleaved ==
    /\ {r.id : r \in RowsOf(messages, "s1")} = {1, 3}
    /\ {r.id : r \in RowsOf(messages, "s2")} = {2}

MergedOk(r) == IsMerge(r) /\ r.status = "ok" /\ r.from # r.to
\* The row of db with the id of row r.
SameId(db, r) == {m \in db : m.id = r.id}

C8_MergeAtomic ==
    [][ IsMerge(ret') =>
          /\ ret'.failAt # "none" => ret'.status = "threw"
          /\ ret'.status = "threw" => messages' = messages
      ]_vars

\* C8 witness: the COMMIT failed after the shift, the nulling of a collision
\* and the reassignment had run.
C8_FailedAtCommit ==
    /\ IsMerge(ret)
    /\ ret.status = "threw"
    /\ ret.failAt = "commit"
    /\ ret.oldMaxSeq >= 1
    /\ ret.newMaxSeq >= 1
    /\ ret.collisions # {}

\* C9: merge local-id collisions. After a merge (sessionId, localId) is unique
\* among the rows with a localId; a moved row whose localId the target held
\* has it nulled, and every other row keeps its localId.
C9_MergeCollisions ==
    [][ MergedOk(ret') =>
          LET inTarget == {r.local_id : r \in RowsOf(messages, ret'.to)} \ {JNull}
          IN  /\ \A r1, r2 \in messages' :
                    (r1.session_id = r2.session_id /\ r1.local_id = r2.local_id
                        /\ r1.local_id # JNull) => r1 = r2
              /\ \A r \in RowsOf(messages, ret'.from) :
                    \A x \in SameId(messages', r) :
                        x.local_id = IF r.local_id \in inTarget THEN JNull ELSE r.local_id
              /\ \A r \in RowsOf(messages, ret'.to) :
                    \A x \in SameId(messages', r) : x.local_id = r.local_id
      ]_vars

\* C9 witness: a merge in which a local id was held by both sessions.
C9_Collided ==
    /\ MergedOk(ret)
    /\ ret.collisions # {}
    /\ ret.moved >= 2

\* C11: stop() resets the hub. Once the hub is unsubscribed no debounce timer is
\* pending and it holds no recorded request set and no ready timestamp; no
\* later step (a sync event, a second stop) changes that state.
C11_StopResets ==
    [][ /\ ~subscribed' =>
            /\ timers' = {}
            /\ notificationDebounce' = EmptyMap
            /\ lastKnownRequests' = EmptyMap
            /\ lastReadyNotificationAt' = EmptyMap
        /\ ~subscribed =>
            UNCHANGED <<subscribed, timers, notificationDebounce, lastKnownRequests,
                        lastReadyNotificationAt>>
      ]_vars

\* C11 witness: stop() has just run with a debounce timer pending for a session
\* that has pending requests: the timer is cancelled and nothing is recorded.
C11_StoppedWithTimer ==
    /\ ~subscribed
    /\ obs.cancelled # {}
    /\ \A t \in obs.cancelled : sessions[t.sid].requests # {}
    /\ timers = {}
    /\ lastKnownRequests = EmptyMap

\* C12: no notification after shutdown. Once the hub is stopped no step calls a
\* channel: no timer callback, no sync event, no dispatch that was in flight.
C12_SilentAfterStop == ~subscribed => obs.invoked = <<>>

IsRemovedEvent(o, sid) ==
    /\ o.ev # <<>>
    /\ o.ev[1].sessionId = sid
    /\ o.ev[1].type = "session-removed"

\* C13: per-session state is cleared on removal or deactivation. After a
\* session-removed event for s, or a session-added / session-updated event for
\* an s that is missing or inactive, the hub holds no timer, no recorded set
\* and no ready timestamp for s; the timer that was pending is cancelled, and
\* only a timer that is still scheduled ever fires.
C13_ClearedOnRemoval ==
    [][ /\ \A sid \in Sessions :
            ( \/ IsRemovedEvent(obs', sid)
              \/ IsSessionEvent(obs', sid) /\ ~Notifiable(sessions'[sid]) )
            => /\ sid \notin DOMAIN notificationDebounce'
               /\ sid \notin DOMAIN lastKnownRequests'
               /\ sid \notin DOMAIN lastReadyNotificationAt'
               /\ TimersOf(timers', sid) = {}
               /\ obs'.cancelled = TimersOf(timers, sid)
               /\ obs'.invoked = <<>>
        /\ obs'.fired # <<>> =>
               /\ obs'.fired[1] \in timers
               /\ obs'.fired[1] \notin obs.cancelled
      ]_vars

\* C13 witness: a session was deactivated while its debounce timer was pending
\* and not yet due.
C13_DeactivatedWithTimer ==
    \E sid \in Sessions :
        /\ IsSessionEvent(obs, sid)
        /\ sessions[sid].exists
        /\ ~sessions[sid].active
        /\ \E t \in obs.cancelled : t.sid = sid /\ now < t.due
        /\ TimersOf(timers, sid) = {}

\* The set recorded for sid in the map m (none recorded: the empty set).
KnownIn(m, sid) == IF sid \in DOMAIN m THEN m[sid] ELSE {}

\* C14: the recorded set tracks the current state. After a session-added /
\* session-updated event for an existing active session the set recorded for it
\* is the session's current set of pending-request ids, the empty set when it
\* has no requests map.
C14_RecordedIsCurrent ==
    [][ \A sid \in Sessions :
            (IsSessionEvent(obs', sid) /\ Notifiable(sessions'[sid])) =>
                KnownIn(lastKnownRequests', sid) = CurrentIds(sessions'[sid])
      ]_vars

\* The pending ids the event of this step shows for sid that an earlier event
\* showed pending and a later one absent.
Reappeared(sid) == CurrentIds(sessions'[sid]) \cap idHistory[sid].gone

\* C15 as stated: an event in which ids that were pending and later absent are
\* pending again, and no id is pending that was never shown before, starts no
\* debounce timer and sends nothing.
C15_ReappearanceNotNew ==
    [][ \A sid \in Sessions :
            ( /\ IsSessionEvent(obs', sid)
              /\ Notifiable(sessions'[sid])
              /\ Reappeared(sid) # {}
              /\ CurrentIds(sessions'[sid]) \subseteq idHistory[sid].ever )
            => /\ timers' = timers
               /\ notificationDebounce' = notificationDebounce
               /\ obs'.invoked = <<>>
      ]_vars

\* C15 amended: a reappearing id is new exactly when the last event that showed
\* a requests map showed it without the id: the debounce timer is then
\* (re)started. When the id was absent only from events that showed no
\* requests map, its coming back changes no timer.
C15_ReappearanceNewOnceDropped ==
    [][ \A sid \in Sessions :
            ( /\ IsSessionEvent(obs', sid)
              /\ Notifiable(sessions'[sid])
              /\ Reappeared(sid) # {} )
            => IF CurrentIds(sessions'[sid]) \ idHistory[sid].last # {}
               THEN /\ obs'.cancelled = TimersOf(timers, sid)
                    /\ Cardinality(TimersOf(timers', sid)) = 1
                    /\ \A t \in TimersOf(timers', sid) : t.due = now + PermissionDebounceMs
                    /\ obs'.invoked = <<>>
               ELSE /\ timers' = timers
                    /\ notificationDebounce' = notificationDebounce
                    /\ obs'.invoked = <<>>
      ]_vars

\* C15 witness: r1, shown pending and then absent, is the only pending id of
\* this event, which replaces the timer pending for the session by a new one.
C15_ReappearedAsNew ==
    \E sid \in Sessions :
        /\ IsSessionEvent(obs, sid)
        /\ Notifiable(sessions[sid])
        /\ sessions[sid].requests = {"r1"}
        /\ "r1" \in idHistory[sid].gone
        /\ obs.cancelled # {}
        /\ \E t \in timers : t.sid = sid /\ t.due = now + PermissionDebounceMs

\* The session's last ready-notification time (0 when none is recorded).
KnownReadyAt(sid) ==
    IF sid \in DOMAIN lastReadyNotificationAt THEN lastReadyNotificationAt[sid] ELSE 0

\* A sendReady dispatch for sid awaits a channel in the task set ts.
ReadyPending(ts, sid) ==
    \E task \in BagToSet(ts) : task.kind = "sendReady" /\ task.sid = sid

\* C16: no concurrent duplicate ready. The step that starts a sendReady
\* dispatch writes the session's last-notified time before it yields, so while
\* the hub listens every pending dispatch has its time recorded; a ready event
\* processed while that dispatch awaits a channel, less than readyCooldownMs
\* after it, calls no channel and starts no second dispatch.
C16_NoConcurrentDuplicateReady ==
    [][ \A sid \in Sessions :
          /\ (IsReadyEvent(obs', sid) /\ obs'.invoked # <<>>) =>
                /\ sid \in DOMAIN lastReadyNotificationAt'
                /\ lastReadyNotificationAt'[sid] = now
                /\ OneDispatch(obs')
          /\ (ReadyPending(tasks', sid) /\ subscribed') =>
                sid \in DOMAIN lastReadyNotificationAt'
          /\ ( /\ IsReadyEvent(obs', sid)
               /\ Notifiable(sessions[sid])
               /\ ReadyPending(tasks, sid)
               /\ now - KnownReadyAt(sid) < ReadyCooldownMs )
             => /\ obs'.invoked = <<>>
                /\ tasks' = tasks
                /\ lastReadyNotificationAt' = lastReadyNotificationAt
      ]_vars

\* C16 witness: a second ready event arrived in the millisecond of the first,
\* whose call to the first channel is still pending; it called no channel.
C16_SecondReadyDropped ==
    \E sid \in Sessions :
        /\ IsReadyEvent(obs, sid)
        /\ Notifiable(sessions[sid])
        /\ obs.invoked = <<>>
        /\ \E task \in BagToSet(tasks) :
              task.kind = "sendReady" /\ task.sid = sid /\ task.ch = 1
        /\ sid \in DOMAIN lastReadyNotificationAt
        /\ lastReadyNotificationAt[sid] = now

\* The scheduled timers ts are the ones the timer map deb holds, one per session.
OneTimerPerSession(ts, deb) ==
    /\ \A t1, t2 \in ts : t1.sid = t2.sid => t1 = t2
    /\ \A t \in ts : t.sid \in DOMAIN deb /\ deb[t.sid] = t.h
    /\ \A sid \in DOMAIN deb : \E t \in ts : t.sid = sid /\ t.h = deb[sid]

\* C17: at most one debounce timer per session. After every step at most one
\* callback is scheduled per session id and it is the one whose handle the
\* timer map holds; the callback that runs is always that one, so a replaced
\* or cleared timer never fires.
C17_OneTimerPerSession ==
    [][ /\ OneTimerPerSession(timers', notificationDebounce')
        /\ obs'.fired # <<>> =>
              LET t == obs'.fired[1]
              IN  /\ t \in timers
                  /\ t.sid \in DOMAIN notificationDebounce
                  /\ notificationDebounce[t.sid] = t.h
                  /\ obs'.cancelled = {}
        /\ \A t \in obs'.cancelled :
              /\ t \in timers
              /\ \A u \in TimersOf(timers', t.sid) : u.due = now + PermissionDebounceMs
      ]_vars

\* C17 witness: a timer was replaced by one due later; only the new one is
\* scheduled and the map holds its handle.
C17_Replaced ==
    \E sid \in Sessions :
        /\ sid \in DOMAIN notificationDebounce
        /\ \E t \in obs.cancelled :
              /\ t.sid = sid
              /\ t \notin timers
              /\ TimersOf(timers, sid) =
                    {[h |-> notificationDebounce[sid], sid |-> sid,
                      due |-> now + PermissionDebounceMs]}

\* Some channel call hangs, and none of the hung calls is for session sid.
OthersHung(sid) == hung # {} /\ \A task \in hung : task.sid # sid

\* C18: a hung channel blocks only its own notification path. While a channel
\* call made for another session hangs, the hub handles the events of session
\* B as ever: a session event with a new id (re)starts B's timer, B's timer
\* callback calls the first channel with B's session, and a ready event past
\* the cooldown calls the first channel; a hung call stays hung.
C18_HungChannelBlocksOnlyItself ==
    [][ /\ \A B \in Sessions :
            OthersHung(B) =>
              /\ ( /\ IsSessionEvent(obs', B)
                   /\ Notifiable(sessions'[B])
                   /\ CurrentIds(sessions'[B]) \ Known(B) # {} )
                 => /\ KnownIn(lastKnownRequests', B) = CurrentIds(sessions'[B])
                    /\ \E t \in timers' : t.sid = B /\ t.due = now + PermissionDebounceMs
              /\ (obs'.fired # <<>> /\ obs'.fired[1].sid = B /\ Notifiable(sessions[B]))
                 => /\ obs'.invoked # <<>>
                    /\ obs'.invoked[1] = Call("sendPermissionRequest", 1, B, sessions[B])
              /\ ( /\ IsReadyEvent(obs', B)
                   /\ Notifiable(sessions[B])
                   /\ now - KnownReadyAt(B) >= ReadyCooldownMs )
                 => /\ obs'.invoked # <<>>
                    /\ obs'.invoked[1] = Call("sendReady", 1, B, sessions[B])
        /\ hung \subseteq hung'
      ]_vars

\* C18 witness: a call made for s1 hangs, and the timer of s2 has fired and
\* called the first channel for s2.
C18_OtherSessionNotified ==
    /\ hung # {}
    /\ \A task \in hung : task.sid = "s1"
    /\ obs.fired # <<>>
    /\ obs.invoked # <<>>
    /\ obs.invoked[1].kind = "sendPermissionRequest"
    /\ obs.invoked[1].sid = "s2"

\* ------------------------------------------------------------------ event parsing (hub/src/notifications/eventParsing.ts)

\* The outcome of an expression that throws a TypeError.
Throws == [k |-> "throw"]

\* value.name: a TypeError on undefined and null, undefined on a primitive.
Member(value, name) ==
    IF value.k \in {"undefined", "null"} THEN Throws ELSE Prop(value, name)

\* value.name where the source writes value?.name.
OptMember_Plain(value, name) == Member(value, name)

\* value?.name
OptMember(value, name) ==
    IF value.k \in {"undefined", "null"} THEN JUndefined ELSE Member(value, name)

\* extractEventEnvelope that looks at the role-wrapped content only.
eventParsing_extractEventEnvelope_WrappedOnly(message) ==
    IF ~isObject(message) THEN JNull
    ELSE LET content == Member(message, "content")
         IN  IF content = Throws THEN Throws
             ELSE IF ~isObject(content) THEN JNull
             ELSE IF Member(content, "type") # JString("event") THEN JNull
             ELSE content

\* extractEventEnvelope(message) of eventParsing.ts; Throws when a property
\* read throws.
eventParsing_extractEventEnvelope(message) ==
    IF ~isObject(message) THEN JNull
    ELSE LET type == Member(message, "type")
         IN  IF type = Throws THEN Throws
             ELSE IF type = JString("event") THEN message
             ELSE LET content == Member(message, "content")
                  IN  IF content = Throws THEN Throws
                      ELSE IF ~isObject(content) THEN JNull
                      ELSE LET contentType == Member(content, "type")
                           IN  IF contentType = Throws THEN Throws
                               ELSE IF contentType # JString("event") THEN JNull
                               ELSE content

\* extractMessageEventType(event) of eventParsing.ts: the message content is
\* event.message?.content, with no fallback to event.data.
eventParsing_extractMessageEventType(event) ==
    IF event.type # "message-received" THEN JNull
    ELSE LET message == OptMember(event.message, "content")
         IN  IF message = Throws THEN Throws
             ELSE LET envelope == eventParsing_extractEventEnvelope(message)
                  IN  IF envelope = Throws THEN Throws
                      ELSE IF envelope = JNull THEN JNull
                      ELSE LET envelopeData == Member(envelope, "data")
                               data == IF envelopeData = Throws THEN Throws
                                       ELSE IF isObject(envelopeData) THEN envelopeData
                                       ELSE JNull
                               eventType == IF data = Throws THEN Throws
                                            ELSE OptMember(data, "type")
                           IN  IF eventType = Throws THEN Throws
                               ELSE IF eventType.k = "string" THEN eventType
                               ELSE JNull

\* The payloads handed to the parser: well-formed, partial and malformed.
DataTypes == {JUndefined, JNull, JNaN, JString("ready"), JString("")}
DataValues ==
    {JUndefined, JNull, JString("ready"), JArray}
        \cup {JObject(t, JUndefined, JUndefined) : t \in DataTypes}
EnvelopeTypes == {JUndefined, JNaN, JString("event"), JString("text")}
InnerContents ==
    {JUndefined, JNull, JString("event"), JArray}
        \cup {JObject(t, d, JUndefined) : t \in EnvelopeTypes, d \in DataValues}
MessageContents ==
    {JUndefined, JNull, JString("event"), JArray}
        \cup {JObject(t, d, c) : t \in EnvelopeTypes, d \in DataValues, c \in InnerContents}
ParsedMessages ==
    {JUndefined, JNull, JString("event")}
        \cup {[k |-> "object", content |-> c] : c \in MessageContents}
OtherEventTypes == {"session-added", "session-updated", "session-removed"}

\* The events handed to the parser, with and without a top-level data field.
ParsedEvents(types) ==
    {[type |-> type, sessionId |-> "s1", message |-> message, data |-> data] :
        type \in types, message \in ParsedMessages, data \in {JUndefined, ReadyDirect}}

\* The hub at rest, and an event about to be parsed.
ParseInit ==
    /\ sessions = [s \in Sessions |-> NoSession]
    /\ now = StartTime
    /\ subscribed = TRUE
    /\ lastKnownRequests = EmptyMap
    /\ notificationDebounce = EmptyMap
    /\ lastReadyNotificationAt = EmptyMap
    /\ timers = {}
    /\ tasks = EmptyBag
    /\ obs = NoObs
    /\ messages = {}
    /\ \E event \in ParsedEvents({"message-received"} \cup OtherEventTypes) :
           ret = [op |-> "event", event |-> event]
    /\ readyLog = [s \in Sessions |-> [c \in Channels |-> -1]]
    /\ idHistory = [s \in Sessions |-> [ever |-> {}, gone |-> {}, last |-> {}]]
    /\ hung = {}
    /\ held = {}
    /\ writers = [w \in Writers |-> IdleWriter]
    /\ database = NewDatabase
    /\ created = {}
    /\ lapsed = [s \in Sessions |-> NoLapse]
    /\ config = InitialConfig
    /\ terminals = NoTerminals

\* One call of extractMessageEventType on the event, when it is of one of `types`.
ParseEvent(types) ==
    /\ ret.op = "event"
    /\ ret.event.type \in types
    /\ ret' = [op |-> "extractMessageEventType", event |-> ret.event,
               result |-> eventParsing_extractMessageEventType(ret.event)]
    /\ UNCHANGED <<sessions, now, hubVars, obs, messages, readyLog, idHistory, hung, held, writers, database, created, lapsed, config, terminals>>

ParseNext ==
    \/ ParseEvent({"message-received"})
    \/ ParseEvent(OtherEventTypes)

\* extractMessageEventType of eventParsing.ts, called on bounded events.
ParseSpec == ParseInit /\ [][ParseNext]_vars

IsParse(r) == r.op = "extractMessageEventType"

\* An object of shape {type: 'event', ...}.
IsEventObject(value) == value.k = "object" /\ value.type = JString("event")
\* The message content of an event, undefined when there is no message object.
ContentOf(event) ==
    IF event.message.k = "object" THEN event.message.content ELSE JUndefined
\* The envelope of content c: c itself, else c.content, else none.
EnvelopeOf(c) ==
    IF IsEventObject(c) THEN c
    ELSE IF c.k = "object" /\ IsEventObject(c.content) THEN c.content
    ELSE JNull
\* The result extractMessageEventType is to give.
ExpectedEventType(event) ==
    IF event.type # "message-received" THEN JNull
    ELSE LET envelope == EnvelopeOf(ContentOf(event))
         IN  IF /\ envelope # JNull
                /\ envelope.data.k = "object"
                /\ envelope.data.type.k = "string"
             THEN envelope.data.type
             ELSE JNull

\* C19: the result of extractMessageEventType is null for an event that is
\* not message-received; otherwise the envelope is the message content itself
\* when that is an object of type 'event', else its content when that is an
\* object of type 'event', and the result is the envelope's data.type when
\* data is an object and data.type a string, null in every other case.
C19_ParsedEventType ==
    IsParse(ret) => ret.result = ExpectedEventType(ret.event)

\* C19 witness: a direct envelope with unusable data around a valid wrapped
\* envelope was parsed, and gave null.
C19_DirectEnvelopeWins ==
    /\ IsParse(ret)
    /\ ret.event.type = "message-received"
    /\ ret.event.message.k = "object"
    /\ IsEventObject(ret.event.message.content)
    /\ ret.event.message.content.data.k # "object"
    /\ ret.event.message.content.content =
           JObject(JString("event"), JObject(JString("ready"), JUndefined, JUndefined),
                   JUndefined)
    /\ ret.result = JNull

\* C20: extractMessageEventType returns a string or null for every event and
\* never throws, whatever is missing or malformed in the payload.
C20_ParserTotal ==
    IsParse(ret) =>
        /\ ret.result # Throws
        /\ ret.result = JNull \/ ret.result.k = "string"

\* C20 witness: a message-received event with no message was parsed, and gave
\* null.
C20_NoMessageParsed ==
    /\ IsParse(ret)
    /\ ret.event.type = "message-received"
    /\ ret.event.message = JUndefined
    /\ ret.result = JNull

\* ------------------------------------------------------------------ reading messages (socketTypes.ts 87-120)

\* The hard cap of a page (200 in the source, scaled).
MaxPageSize == 2

\* NaN, Infinity and -Infinity: the numbers Number.isFinite rejects.
JNotFinite == [k |-> "nonfinite"]

\* Number.isFinite(value)
NumberIsFinite(value) == value.k = "number"

Min2(a, b) == IF a <= b THEN a ELSE b
Max2(a, b) == IF a >= b THEN a ELSE b

\* Mutant: the limit is capped from above only.
SafeLimit_NoFloor(limit) ==
    LET given == IF limit = JUndefined THEN JNumber(MaxPageSize) ELSE limit
    IN  IF NumberIsFinite(given) THEN Min2(MaxPageSize, given.n) ELSE MaxPageSize

\* limit = 200 by default; Number.isFinite(limit) ? Math.max(1, Math.min(200, limit)) : 200
SafeLimit(limit) ==
    LET given == IF limit = JUndefined THEN JNumber(MaxPageSize) ELSE limit
    IN  IF NumberIsFinite(given) THEN Max2(1, Min2(MaxPageSize, given.n)) ELSE MaxPageSize

\* ORDER BY seq ASC
RECURSIVE OrderBySeqAsc(_)
OrderBySeqAsc(rows) ==
    IF rows = {} THEN <<>>
    ELSE LET first == CHOOSE r \in rows : \A x \in rows : r.seq <= x.seq
         IN  <<first>> \o OrderBySeqAsc(rows \ {first})

\* Mutant: the page is returned as selected.
Reverse_Kept(rows) == rows

\* rows.reverse()
Reverse(rows) == [i \in 1..Len(rows) |-> rows[Len(rows) + 1 - i]]

\* ORDER BY seq DESC
OrderBySeqDesc(rows) == Reverse(OrderBySeqAsc(rows))

\* LIMIT n
Limit(rows, n) == SubSeq(rows, 1, Min2(n, Len(rows)))

\* rows.map(toStoredMessage)
MapStored(rows) == [i \in 1..Len(rows) |-> toStoredMessage(rows[i])]

getMessages(db, sessionId, limit, beforeSeq) ==
    LET safeLimit == SafeLimit(limit)
        rows == IF beforeSeq # JUndefined /\ beforeSeq # JNull /\ NumberIsFinite(beforeSeq)
                THEN Limit(OrderBySeqDesc({r \in SessionRows(db, sessionId) :
                                              r.seq < beforeSeq.n}), safeLimit)
                ELSE Limit(OrderBySeqDesc(SessionRows(db, sessionId)), safeLimit)
    IN  MapStored(Reverse(rows))

getMessagesAfter(db, sessionId, afterSeq, limit) ==
    LET safeLimit == SafeLimit(limit)
        safeAfterSeq == IF NumberIsFinite(afterSeq) THEN afterSeq.n ELSE 0
    IN  MapStored(Limit(OrderBySeqAsc({r \in SessionRows(db, sessionId) :
                                          r.seq > safeAfterSeq}), safeLimit))

\* The limit and seq arguments of the readers.
LimitArgs == {JUndefined, JNotFinite} \cup {JNumber(n) : n \in -1..(MaxPageSize + 1)}
SeqArgs == {JUndefined, JNull, JNotFinite} \cup {JNumber(n) : n \in -1..MaxRows}

GetMessages ==
    \E sessionId \in Sessions, limit \in LimitArgs, beforeSeq \in SeqArgs :
        /\ ret' = [op |-> "getMessages", sessionId |-> sessionId, limit |-> limit,
                   beforeSeq |-> beforeSeq,
                   rows |-> getMessages(messages, sessionId, limit, beforeSeq)]
        /\ UNCHANGED <<sessions, now, hubVars, obs, messages>>

GetMessagesAfter ==
    \E sessionId \in Sessions, limit \in LimitArgs, afterSeq \in SeqArgs \ {JNull} :
        /\ ret' = [op |-> "getMessagesAfter", sessionId |-> sessionId, limit |-> limit,
                   afterSeq |-> afterSeq,
                   rows |-> getMessagesAfter(messages, sessionId, afterSeq, limit)]
        /\ UNCHANGED <<sessions, now, hubVars, obs, messages>>

\* The messages table under addMessage and mergeSessionMessages, and its readers.
ReadNext ==
    \/ AddMessage({JString("a")}, {JUndefined}) /\ UNCHANGED <<readyLog, idHistory, hung, held, writers, database, created, lapsed, config, terminals>>
    \/ MergeSessionMessages /\ UNCHANGED <<readyLog, idHistory, hung, held, writers, database, created, lapsed, config, terminals>>
    \/ GetMessages /\ UNCHANGED <<readyLog, idHistory, hung, held, writers, database, created, lapsed, config, terminals>>
    \/ GetMessagesAfter /\ UNCHANGED <<readyLog, idHistory, hung, held, writers, database, created, lapsed, config, terminals>>

ReadSpec == Init /\ [][ReadNext]_vars

\* ------------------------------------------------------------------ properties of the readers

IsGetAfter(r) == r.op = "getMessagesAfter"
IsGet(r) == r.op = "getMessages"

\* The limit in force: the argument clamped to 1..MaxPageSize, MaxPageSize
\* when it is omitted or not finite.
ClampedLimit(limit) ==
    IF limit.k # "number" THEN MaxPageSize
    ELSE IF limit.n < 1 THEN 1
    ELSE IF limit.n > MaxPageSize THEN MaxPageSize
    ELSE limit.n

\* The seq a reader counts from: the argument, 0 when it is not finite.
CountedFrom(afterSeq) == IF afterSeq.k = "number" THEN afterSeq.n ELSE 0

\* The stored messages of a session.
MessagesOf(db, sessionId) == {toStoredMessage(r) : r \in SessionRows(db, sessionId)}

Range(rows) == {rows[i] : i \in 1..Len(rows)}
Ascending(rows) == \A i, j \in 1..Len(rows) : i < j => rows[i].seq < rows[j].seq

\* The seqs of the session are 1..n.
GapFree(db, sessionId) ==
    {r.seq : r \in SessionRows(db, sessionId)} = 1..Cardinality(SessionRows(db, sessionId))

\* The page is the first min(count, L) messages after the counted seq, ascending.
FirstAfter(r) ==
    LET after == {m \in MessagesOf(messages, r.sessionId) : m.seq > CountedFrom(r.afterSeq)}
    IN  /\ Len(r.rows) = Min2(Cardinality(after), ClampedLimit(r.limit))
        /\ Ascending(r.rows)
        /\ Range(r.rows) \subseteq after
        /\ \A m \in after \ Range(r.rows) : \A i \in 1..Len(r.rows) : r.rows[i].seq < m.seq

\* C21 as stated: getMessagesAfter returns, ascending, the first min(count, L)
\* messages of the session with seq > afterSeq, L the limit clamped to
\* 1..MaxPageSize, a non-finite afterSeq counting as 0; and when the session's
\* seqs are gap-free the returned seqs are afterSeq+1, afterSeq+2, ...
C21_SuffixFromAfterSeq ==
    IsGetAfter(ret) =>
        /\ FirstAfter(ret)
        /\ GapFree(messages, ret.sessionId) =>
               \A i \in 1..Len(ret.rows) : ret.rows[i].seq = CountedFrom(ret.afterSeq) + i

\* C21 as amended: the same page, and when the session's seqs are gap-free
\* the returned seqs are consecutive from afterSeq+1 for an afterSeq of 0 or
\* more, and from 1 for a negative or non-finite afterSeq.
C21_SuffixFromFirstSeq ==
    IsGetAfter(ret) =>
        /\ FirstAfter(ret)
        /\ GapFree(messages, ret.sessionId) =>
               \A i \in 1..Len(ret.rows) :
                   ret.rows[i].seq = Max2(CountedFrom(ret.afterSeq), 0) + i

\* C21 witness: a session holds more messages than a page, and the page read
\* after a negative afterSeq with a larger limit starts at seq 1 and is cut at
\* the cap.
C21_PageCut ==
    /\ IsGetAfter(ret)
    /\ ret.limit = JNumber(MaxPageSize + 1)
    /\ ret.afterSeq = JNumber(-1)
    /\ Cardinality(SessionRows(messages, ret.sessionId)) > MaxPageSize
    /\ Len(ret.rows) = MaxPageSize
    /\ ret.rows[1].seq = 1

\* The messages of the session a call of getMessages chooses from: all of
\* them, or those before a finite beforeSeq.
Before(r) ==
    IF r.beforeSeq.k = "number"
    THEN {m \in MessagesOf(messages, r.sessionId) : m.seq < r.beforeSeq.n}
    ELSE MessagesOf(messages, r.sessionId)

\* C22: getMessages returns, ascending, the L messages of the session with
\* the largest seqs (all of them when there are fewer), among those with
\* seq < beforeSeq when a finite beforeSeq is given; L is the limit clamped to
\* 1..MaxPageSize, MaxPageSize when it is omitted or not finite; never more
\* than MaxPageSize messages and never a message of another session.
C22_NewestPage ==
    IsGet(ret) =>
        /\ Len(ret.rows) = Min2(Cardinality(Before(ret)), ClampedLimit(ret.limit))
        /\ Ascending(ret.rows)
        /\ Range(ret.rows) \subseteq Before(ret)
        /\ \A m \in Before(ret) \ Range(ret.rows) :
               \A i \in 1..Len(ret.rows) : m.seq < ret.rows[i].seq
        /\ Len(ret.rows) <= MaxPageSize
        /\ \A i \in 1..Len(ret.rows) : ret.rows[i].sessionId = ret.sessionId

\* C22 witness: both sessions hold messages, one of them more than the limit
\* before beforeSeq, and the page read is the newest of them.
C22_NewestCut ==
    /\ IsGet(ret)
    /\ ret.limit.k = "number"
    /\ ret.beforeSeq.k = "number"
    /\ Cardinality(Before(ret)) > ClampedLimit(ret.limit)
    /\ Len(ret.rows) = ClampedLimit(ret.limit)
    /\ ret.rows[1].seq > 1
    /\ \E r \in messages : r.session_id # ret.sessionId

\* ------------------------------------------------------------------ seq over addMessage and mergeSessionMessages

\* The (message, session, seq) of every row of the table.
HeldNow(db) == {[id |-> r.id, sessionId |-> r.session_id, seq |-> r.seq] : r \in db}
Holding == held' = held \cup HeldNow(messages')

\* The messages table under addMessage and mergeSessionMessages, with the
\* history of the seqs the messages have held.
SeqNext ==
    \/ AddMessage({JString("a")}, {JUndefined}) /\ Holding /\ UNCHANGED <<readyLog, idHistory, hung, writers, database, created, lapsed, config, terminals>>
    \/ MergeSessionMessages /\ Holding /\ UNCHANGED <<readyLog, idHistory, hung, writers, database, created, lapsed, config, terminals>>

SeqSpec == Init /\ [][SeqNext]_vars

\* No two rows of a session hold the same seq.
UniqueSeq(db) ==
    \A r1, r2 \in db : (r1.session_id = r2.session_id /\ r1.seq = r2.seq) => r1 = r2

Scheduled_Preemptive(w) == TRUE

\* addMessage is synchronous (no await between line 46 and line 84): a handler
\* starts its call only when no other handler is inside one.
Scheduled(w) == \A o \in Writers \ {w} : writers[o].pc = "idle"

\* Lines 46-60: Date.now(), the lookup of the localId, SELECT ... MAX(seq) + 1.
AddBegins(w) ==
    \E sessionId \in Sessions, content \in {JString("a")},
       localId \in {JUndefined, JString("l1")} :
        /\ writers[w].pc = "idle"
        /\ Scheduled(w)
        /\ Cardinality(messages) + Cardinality({o \in Writers : writers[o].pc # "idle"})
               < MaxRows
        /\ IF Truthy(localId) /\ ExistingRows(messages, sessionId, localId) # {}
           THEN /\ ret' = [op |-> "addMessage", sessionId |-> sessionId,
                           localId |-> localId, content |-> content, status |-> "ok",
                           msg |-> <<toStoredMessage(
                                       CHOOSE r \in ExistingRows(messages, sessionId, localId) :
                                           TRUE)>>]
                /\ UNCHANGED writers
           ELSE /\ writers' = [writers EXCEPT ![w] =
                                  [pc |-> "insert", added |-> writers[w].added,
                                   sessionId |-> sessionId, content |-> content,
                                   localId |-> localId, at |-> now,
                                   msgSeq |-> getMaxSeq(messages, sessionId) + 1]]
                /\ UNCHANGED ret
        /\ UNCHANGED <<sessions, now, hubVars, obs, messages>>

\* Lines 62-84: INSERT with the seq read before, SELECT of the row, return.
AddInserts(w) ==
    /\ writers[w].pc = "insert"
    /\ LET call == writers[w]
           row == [NewRow(messages, call.sessionId, call.content, call.localId, call.at)
                       EXCEPT !.seq = call.msgSeq]
           ok == UniqueLocalId(messages \cup {row})
       IN  /\ messages' = IF ok THEN messages \cup {row} ELSE messages
           /\ writers' = [writers EXCEPT ![w] =
                             [pc |-> "idle",
                              added |-> IF ok THEN call.added \cup {row.id} ELSE call.added]]
           /\ ret' = [op |-> "addMessage", sessionId |-> call.sessionId,
                      localId |-> call.localId, content |-> call.content,
                      status |-> IF ok THEN "ok" ELSE "threw",
                      msg |-> IF ok THEN <<toStoredMessage(row)>> ELSE <<>>]
    /\ UNCHANGED <<sessions, now, hubVars, obs>>

\* Two handlers of the hub's process calling addMessage.
WriterNext ==
    \/ \E w \in Writers : AddBegins(w) /\ UNCHANGED <<readyLog, idHistory, hung, held, database, created, lapsed, config, terminals>>
    \/ \E w \in Writers : AddInserts(w) /\ UNCHANGED <<readyLog, idHistory, hung, held, database, created, lapsed, config, terminals>>

WriterSpec == Init /\ [][WriterNext]_vars

Namespaces == {"alpha", "beta"}
Tags == {"tag", "tag-2"}
MachineIds == {"machine-1", "machine-2"}
Metadatas == {JString("alpha-host"), JString("beta-host")}

\* getSessionsByNamespace(db, namespace)
getSessionsByNamespace(db, namespace) == {s \in db.sessions : s.namespace = namespace}

\* getOrCreateSession(db, tag, metadata, agentState, namespace): the session of
\* this tag in this namespace, created under a fresh id when there is none.
getOrCreateSession(db, tag, metadata, agentState, namespace) ==
    LET existing == {s \in db.sessions : s.tag = tag /\ s.namespace = namespace}
        row == [id |-> Cardinality(db.sessions) + 1, tag |-> tag, namespace |-> namespace,
                metadata |-> metadata, metadata_version |-> 1,
                agent_state |-> agentState, agent_state_version |-> 1]
    IN  IF existing # {}
        THEN [status |-> "ok", db |-> db, session |-> <<CHOOSE s \in existing : TRUE>>]
        ELSE [status |-> "ok", db |-> [db EXCEPT !.sessions = @ \cup {row}],
              session |-> <<row>>]

\* Mutant: the listing is not filtered.
getMachinesByNamespace_All(db, namespace) == db.machines

\* getMachinesByNamespace(db, namespace)
getMachinesByNamespace(db, namespace) == {m \in db.machines : m.namespace = namespace}

\* Mutant: a machine of another namespace is handed out.
getOrCreateMachine_Adopts(db, id, metadata, daemonState, namespace) ==
    LET existing == {m \in db.machines : m.id = id}
        row == [id |-> id, namespace |-> namespace,
                metadata |-> metadata, metadata_version |-> 1,
                daemon_state |-> daemonState, daemon_state_version |-> 1]
    IN  IF existing # {}
        THEN [status |-> "ok", db |-> db, machine |-> <<CHOOSE m \in existing : TRUE>>]
        ELSE [status |-> "ok", db |-> [db EXCEPT !.machines = @ \cup {row}],
              machine |-> <<row>>]

\* getOrCreateMachine(db, id, metadata, daemonState, namespace): the machine of
\* this id; a conflict error when it belongs to another namespace.
getOrCreateMachine(db, id, metadata, daemonState, namespace) ==
    LET existing == {m \in db.machines : m.id = id}
        row == [id |-> id, namespace |-> namespace,
                metadata |-> metadata, metadata_version |-> 1,
                daemon_state |-> daemonState, daemon_state_version |-> 1]
    IN  IF existing # {}
        THEN LET machine == CHOOSE m \in existing : TRUE
             IN  IF machine.namespace # namespace
                 THEN [status |-> "threw", db |-> db, machine |-> <<>>]
                 ELSE [status |-> "ok", db |-> db, machine |-> <<machine>>]
        ELSE [status |-> "ok", db |-> [db EXCEPT !.machines = @ \cup {row}],
              machine |-> <<row>>]

\* store.sessions.getOrCreateSession(tag, metadata, null, namespace)
GetOrCreateSession ==
    \E tag \in Tags, namespace \in Namespaces :
        LET r == getOrCreateSession(database, tag, JString("path"), JNull, namespace)
        IN  /\ database' = r.db
            /\ ret' = [op |-> "getOrCreateSession", tag |-> tag, namespace |-> namespace,
                       status |-> r.status, session |-> r.session]
            /\ created' = created \cup
                   {[kind |-> "session", id |-> r.session[1].id, key |-> tag,
                     namespace |-> namespace]}
            /\ UNCHANGED <<sessions, now, hubVars, obs, messages, lapsed, config, terminals>>

\* MachineStore.getOrCreateMachine(id, metadata, null, namespace)
GetOrCreateMachine ==
    \E id \in MachineIds, metadata \in Metadatas, namespace \in Namespaces :
        LET r == getOrCreateMachine(database, id, metadata, JNull, namespace)
        IN  /\ database' = r.db
            /\ ret' = [op |-> "getOrCreateMachine", id |-> id, metadata |-> metadata,
                       namespace |-> namespace, status |-> r.status, machine |-> r.machine]
            /\ created' = IF r.status = "ok"
                          THEN created \cup {[kind |-> "machine", id |-> r.machine[1].id,
                                              key |-> id, namespace |-> namespace]}
                          ELSE created
            /\ UNCHANGED <<sessions, now, hubVars, obs, messages, lapsed, config, terminals>>

\* store.sessions.getSessionsByNamespace(namespace)
GetSessionsByNamespace ==
    \E namespace \in Namespaces :
        /\ ret' = [op |-> "getSessionsByNamespace", namespace |-> namespace,
                   rows |-> getSessionsByNamespace(database, namespace)]
        /\ UNCHANGED <<sessions, now, hubVars, obs, messages, database, created, lapsed, config, terminals>>

\* MachineStore.getMachinesByNamespace(namespace)
GetMachinesByNamespace ==
    \E namespace \in Namespaces :
        /\ ret' = [op |-> "getMachinesByNamespace", namespace |-> namespace,
                   rows |-> getMachinesByNamespace(database, namespace)]
        /\ UNCHANGED <<sessions, now, hubVars, obs, messages, database, created, lapsed, config, terminals>>

\* The sessions and machines tables under getOrCreate and the listings.
NamespaceNext ==
    \/ GetOrCreateSession /\ UNCHANGED <<readyLog, idHistory, hung, held, writers>>
    \/ GetOrCreateMachine /\ UNCHANGED <<readyLog, idHistory, hung, held, writers>>
    \/ GetSessionsByNamespace /\ UNCHANGED <<readyLog, idHistory, hung, held, writers>>
    \/ GetMachinesByNamespace /\ UNCHANGED <<readyLog, idHistory, hung, held, writers>>

NamespaceSpec == Init /\ [][NamespaceNext]_vars

\* The ids getOrCreate calls of one kind returned under a namespace.
CreatedUnder(kind, namespace) ==
    {c.id : c \in {x \in created : x.kind = kind /\ x.namespace = namespace}}

\* C25: a listing by namespace holds exactly the entities created under that
\* namespace and none created under another one; one tag used in two
\* namespaces yields two distinct sessions.
C25_NamespaceListingIsolation ==
    /\ ret.op = "getSessionsByNamespace" =>
           /\ {s.id : s \in ret.rows} = CreatedUnder("session", ret.namespace)
           /\ \A n \in Namespaces \ {ret.namespace} :
                  {s.id : s \in ret.rows} \cap CreatedUnder("session", n) = {}
    /\ ret.op = "getMachinesByNamespace" =>
           /\ {m.id : m \in ret.rows} = CreatedUnder("machine", ret.namespace)
           /\ \A n \in Namespaces \ {ret.namespace} :
                  {m.id : m \in ret.rows} \cap CreatedUnder("machine", n) = {}
    /\ \A c1, c2 \in created :
           (c1.kind = "session" /\ c2.kind = "session" /\ c1.key = c2.key
               /\ c1.namespace # c2.namespace) => c1.id # c2.id

\* C25 witness: one tag was used in both namespaces, machines exist in both,
\* and the machines of one namespace were listed.
C25_ListedAmongOthers ==
    /\ ret.op = "getMachinesByNamespace"
    /\ ret.rows # {}
    /\ \E m \in database.machines : m.namespace # ret.namespace
    /\ \E c1, c2 \in created :
           c1.kind = "session" /\ c2.kind = "session" /\ c1.key = c2.key
               /\ c1.namespace # c2.namespace

\* C26: getOrCreateMachine on the id of a machine of another namespace throws
\* and leaves that machine (namespace, metadata, daemon state, versions) as it
\* was; on the id of a machine of the same namespace it returns that machine
\* and creates no second one.
C26_MachineNamespaceConflict ==
    [][ ret'.op = "getOrCreateMachine" =>
          \A m \in database.machines :
              m.id = ret'.id =>
                  /\ database' = database
                  /\ m.namespace # ret'.namespace =>
                         ret'.status = "threw" /\ ret'.machine = <<>>
                  /\ m.namespace = ret'.namespace =>
                         ret'.status = "ok" /\ ret'.machine = <<m>>
      ]_vars

\* C26 witness: a call on the id of a machine of another namespace, with
\* another metadata, has thrown.
C26_ConflictThrown ==
    /\ ret.op = "getOrCreateMachine"
    /\ ret.status = "threw"
    /\ \E m \in database.machines :
           m.id = ret.id /\ m.namespace # ret.namespace /\ m.metadata # ret.metadata

\* ------------------------------------------------------------------ opening the database (store/index.ts 86-104)

\* SELECT name FROM sqlite_master WHERE type = 'table' AND name NOT LIKE 'sqlite_%' LIMIT 1
hasAnyUserTables(db) == db.tables # {}

\* createSchema(): CREATE TABLE IF NOT EXISTS for each of the five tables.
createSchema(db) == [db EXCEPT !.tables = @ \cup REQUIRED_TABLES]

\* setUserVersion(version)
setUserVersion(db, version) == [db EXCEPT !.user_version = version]

\* The tables assertRequiredTablesPresent finds missing.
MissingTables(db) == REQUIRED_TABLES \ db.tables

\* Mutant: a stamp of another version is not looked at.
initSchema_AnyVersion(db) ==
    IF db.user_version = 0
    THEN IF hasAnyUserTables(db)
         THEN [status |-> "ok", error |-> "none", db |-> setUserVersion(db, SCHEMA_VERSION)]
         ELSE [status |-> "ok", error |-> "none",
               db |-> setUserVersion(createSchema(db), SCHEMA_VERSION)]
    ELSE IF MissingTables(db) # {}
    THEN [status |-> "threw", error |-> "missing required tables", db |-> db]
    ELSE [status |-> "ok", error |-> "none", db |-> db]

\* initSchema(): the outcome of opening, and the database afterwards.
initSchema(db) ==
    IF db.user_version = 0
    THEN IF hasAnyUserTables(db)
         THEN [status |-> "ok", error |-> "none", db |-> setUserVersion(db, SCHEMA_VERSION)]
         ELSE [status |-> "ok", error |-> "none",
               db |-> setUserVersion(createSchema(db), SCHEMA_VERSION)]
    ELSE IF db.user_version # SCHEMA_VERSION
    THEN [status |-> "threw", error |-> "schema version mismatch", db |-> db]
    ELSE IF MissingTables(db) # {}
    THEN [status |-> "threw", error |-> "missing required tables", db |-> db]
    ELSE [status |-> "ok", error |-> "none", db |-> db]

\* The database files a Store may be opened on: any stamp, any set of tables.
DatabaseFiles ==
    {[user_version |-> v, tables |-> t, sessions |-> {}, machines |-> {}] :
        v \in {0, SCHEMA_VERSION, OtherVersion},
        t \in SUBSET (REQUIRED_TABLES \cup {"legacy"})}

\* A database file found on disk, before the Store is constructed.
OpenInit ==
    /\ sessions = [s \in Sessions |-> NoSession]
    /\ now = StartTime
    /\ subscribed = TRUE
    /\ lastKnownRequests = EmptyMap
    /\ notificationDebounce = EmptyMap
    /\ lastReadyNotificationAt = EmptyMap
    /\ timers = {}
    /\ tasks = EmptyBag
    /\ obs = NoObs
    /\ messages = {}
    /\ ret = NoRet
    /\ readyLog = [s \in Sessions |-> [c \in Channels |-> -1]]
    /\ idHistory = [s \in Sessions |-> [ever |-> {}, gone |-> {}, last |-> {}]]
    /\ hung = {}
    /\ held = {}
    /\ writers = [w \in Writers |-> IdleWriter]
    /\ database \in DatabaseFiles
    /\ created = {}
    /\ lapsed = [s \in Sessions |-> NoLapse]
    /\ config = InitialConfig
    /\ terminals = NoTerminals

\* new Store(dbPath): initSchema on the file as it is.
OpenStore ==
    LET r == initSchema(database)
    IN  /\ database' = r.db
        /\ ret' = [op |-> "open", status |-> r.status, error |-> r.error,
                   fresh |-> (database.user_version = 0 /\ database.tables = {}),
                   reopened |-> (ret.op = "open" /\ ret.status = "ok")]
        /\ UNCHANGED <<sessions, now, hubVars, obs, messages, readyLog, idHistory, hung,
                       held, writers, created, lapsed, config, terminals>>

OpenNext == OpenStore

OpenSpec == OpenInit /\ [][OpenNext]_vars

IsOpen(r) == r.op = "open"

\* C27: opening a database stamped with a non-zero version other than
\* SCHEMA_VERSION throws the schema-mismatch error and changes neither the
\* stamp nor any table; opening an empty database creates the five required
\* tables and stamps SCHEMA_VERSION; reopening it then succeeds and changes
\* nothing.
C27_SchemaVersionGate ==
    [][ IsOpen(ret') =>
          /\ database.user_version \notin {0, SCHEMA_VERSION} =>
                 /\ ret'.status = "threw"
                 /\ ret'.error = "schema version mismatch"
                 /\ database' = database
          /\ (database.user_version = 0 /\ database.tables = {}) =>
                 /\ ret'.status = "ok"
                 /\ database'.tables = REQUIRED_TABLES
                 /\ database'.user_version = SCHEMA_VERSION
          /\ (IsOpen(ret) /\ ret.status = "ok" /\ ret.fresh) =>
                 /\ ret'.status = "ok"
                 /\ database' = database
      ]_vars

\* C27 witness: an empty database was opened, and opened again.
C27_Reopened ==
    /\ IsOpen(ret)
    /\ ret.reopened
    /\ ret.status = "ok"
    /\ database.tables = REQUIRED_TABLES
    /\ database.user_version = SCHEMA_VERSION

\* C28: opening an existing database that lacks a required table fails,
\* whatever its stamp, also with no stamp (version 0) and some tables; and the
\* database is not stamped.
C28_MissingTableGate ==
    [][ ( /\ IsOpen(ret')
          /\ MissingTables(database) # {}
          /\ ~(database.user_version = 0 /\ database.tables = {}) )
        => /\ ret'.status = "threw"
           /\ database'.user_version = database.user_version
      ]_vars

\* ------------------------------------------------------------------ PushNotificationChannel (rpcHandlers.ts 151-219)

\* getSessionName(session), getAgentName(session): display names.
getSessionName(session) == [nameOf |-> session.id]
getAgentName(session) == [agentOf |-> session.id]

\* buildSessionUrl(sessionId): the app URL without its trailing slash, then
\* /sessions/<id>; the same from the raw string when appUrl is not a URL.
buildSessionUrl(appUrl, sessionId) ==
    [base |-> appUrl.base, path |-> appUrl.path \o <<"sessions", sessionId>>]

\* Mutant: the channel does not look at session.active.
sendReady_Unguarded(appUrl, session) ==
    <<[namespace |-> session.namespace,
       payload |-> [title |-> "Ready for input",
                    body |-> <<getAgentName(session), getSessionName(session)>>,
                    tag |-> <<"ready", session.id>>,
                    data |-> [type |-> "ready", sessionId |-> session.id,
                              url |-> buildSessionUrl(appUrl, session.id)]]]>>

\* sendReady(session): the calls of pushService.sendToNamespace it makes.
sendReady(appUrl, session) ==
    IF ~session.active THEN <<>>
    ELSE <<[namespace |-> session.namespace,
            payload |-> [title |-> "Ready for input",
                         body |-> <<getAgentName(session), getSessionName(session)>>,
                         tag |-> <<"ready", session.id>>,
                         data |-> [type |-> "ready", sessionId |-> session.id,
                                   url |-> buildSessionUrl(appUrl, session.id)]]]>>

\* sendPermissionRequest(session): the calls of pushService.sendToNamespace it
\* makes; the body names the tool of the first request when it has one.
sendPermissionRequest(appUrl, session) ==
    IF ~session.active THEN <<>>
    ELSE LET toolName == IF session.requests # <<>> /\ session.requests[1].tool # ""
                         THEN <<session.requests[1].tool>> ELSE <<>>
         IN  <<[namespace |-> session.namespace,
                payload |-> [title |-> "Permission Request",
                             body |-> <<getSessionName(session)>> \o toolName,
                             tag |-> <<"permission", session.id>>,
                             data |-> [type |-> "permission-request",
                                       sessionId |-> session.id,
                                       url |-> buildSessionUrl(appUrl, session.id)]]]>>

\* The app URLs the channel is constructed with, and the sessions handed to it:
\* requests is Object.values(agentState.requests), empty without agentState.
AppUrls == {[base |-> "https://app.example", path |-> <<>>],
            [base |-> "https://app.example", path |-> <<"hapi">>]}
PushedSessions ==
    {[id |-> id, namespace |-> namespace, active |-> active, requests |-> requests] :
        id \in Sessions, namespace \in Namespaces, active \in BOOLEAN,
        requests \in {<<>>, <<[tool |-> ""]>>, <<[tool |-> "Bash"]>>,
                      <<[tool |-> "Bash"], [tool |-> "Edit"]>>}}

\* A channel and a session about to be handed to it.
PushInit ==
    /\ sessions = [s \in Sessions |-> NoSession]
    /\ now = StartTime
    /\ subscribed = TRUE
    /\ lastKnownRequests = EmptyMap
    /\ notificationDebounce = EmptyMap
    /\ lastReadyNotificationAt = EmptyMap
    /\ timers = {}
    /\ tasks = EmptyBag
    /\ obs = NoObs
    /\ messages = {}
    /\ \E appUrl \in AppUrls, session \in PushedSessions :
           ret = [op |-> "channel", appUrl |-> appUrl, session |-> session]
    /\ readyLog = [s \in Sessions |-> [c \in Channels |-> -1]]
    /\ idHistory = [s \in Sessions |-> [ever |-> {}, gone |-> {}, last |-> {}]]
    /\ hung = {}
    /\ held = {}
    /\ writers = [w \in Writers |-> IdleWriter]
    /\ database = NewDatabase
    /\ created = {}
    /\ lapsed = [s \in Sessions |-> NoLapse]
    /\ config = InitialConfig
    /\ terminals = NoTerminals

PushFrame ==
    UNCHANGED <<sessions, now, hubVars, obs, messages, readyLog, idHistory, hung, held,
                writers, database, created, lapsed, config, terminals>>

SendPermissionRequest ==
    /\ ret.op = "channel"
    /\ ret' = [op |-> "sendPermissionRequest", session |-> ret.session,
               sent |-> sendPermissionRequest(ret.appUrl, ret.session)]
    /\ PushFrame

SendReady ==
    /\ ret.op = "channel"
    /\ ret' = [op |-> "sendReady", session |-> ret.session,
               sent |-> sendReady(ret.appUrl, ret.session)]
    /\ PushFrame

PushNext ==
    \/ SendPermissionRequest
    \/ SendReady

PushSpec == PushInit /\ [][PushNext]_vars

IsPush(r) == r.op \in {"sendPermissionRequest", "sendReady"}

\* C29: sendPermissionRequest and sendReady send nothing to the push service
\* for a session whose active is false; when they send, they send exactly one
\* payload, to session.namespace only, and an active session gets one.
C29_ChannelInactiveGuard ==
    IsPush(ret) =>
        /\ ~ret.session.active => ret.sent = <<>>
        /\ ret.session.active => Len(ret.sent) = 1
        /\ \A i \in 1..Len(ret.sent) :
               /\ ret.sent[i].namespace = ret.session.namespace
               /\ ret.sent[i].payload.data.sessionId = ret.session.id

\* C29 witness: sendReady was called with an inactive session, and sent nothing.
C29_InactiveSkipped ==
    /\ ret.op = "sendReady"
    /\ ~ret.session.active
    /\ ret.session.namespace = "beta"
    /\ ret.sent = <<>>

\* ------------------------------------------------------------------ route guards (guards.ts)

\* The booleans, as values of an optional property.
JFalse == [k |-> "boolean", b |-> FALSE]
JTrue == [k |-> "boolean", b |-> TRUE]

\* c.json({ error }, status)
Response(error, status) == [kind |-> "response", error |-> error, status |-> status]

\* No entity: getMachine / the engine's lookup found nothing.
NoEntity == [exists |-> FALSE]

\* engine.resolveSessionAccess(sessionId, namespace): namespace equality, with
\* the reasons namespace-missing, not-found and access-denied.
resolveSessionAccess(session, sessionId, namespace) ==
    IF namespace = JUndefined THEN [ok |-> FALSE, reason |-> "namespace-missing"]
    ELSE IF ~session.exists THEN [ok |-> FALSE, reason |-> "not-found"]
    ELSE IF JString(session.namespace) # namespace
    THEN [ok |-> FALSE, reason |-> "access-denied"]
    ELSE [ok |-> TRUE, sessionId |-> sessionId, session |-> session]

\* requireSession(c, engine, sessionId, options), given what
\* engine.resolveSessionAccess answered; requireActive is options?.requireActive.
requireSession(access, requireActive) ==
    IF ~access.ok
    THEN LET status == IF access.reason = "access-denied" THEN 403 ELSE 404
             error == IF access.reason = "access-denied" THEN "Session access denied"
                      ELSE "Session not found"
         IN  Response(error, status)
    ELSE IF requireActive = JTrue /\ ~access.session.active
    THEN Response("Session is inactive", 409)
    ELSE [kind |-> "session", sessionId |-> access.sessionId, session |-> access.session]

\* Mutant: the machine's namespace is not compared.
requireMachine_AnyNamespace(namespace, machine) ==
    IF ~machine.exists THEN Response("Machine not found", 404)
    ELSE [kind |-> "machine", machine |-> machine]

\* requireMachine(c, engine, machineId), given what engine.getMachine answered.
requireMachine(namespace, machine) ==
    IF ~machine.exists THEN Response("Machine not found", 404)
    ELSE IF JString(machine.namespace) # namespace THEN Response("Machine access denied", 403)
    ELSE [kind |-> "machine", machine |-> machine]

\* c.get('namespace'): the caller's namespace, or none.
CallerNamespaces == {JUndefined} \cup {JString(n) : n \in Namespaces}
\* options?.requireActive
RequireActiveArgs == {JUndefined, JFalse, JTrue}
\* What the engine holds under the id asked for.
EngineSessions ==
    {NoEntity} \cup {[exists |-> TRUE, id |-> "s1", namespace |-> n, active |-> a] :
                        n \in Namespaces, a \in BOOLEAN}
EngineMachines ==
    {NoEntity} \cup {[exists |-> TRUE, id |-> "machine-1", namespace |-> n] : n \in Namespaces}

\* A request of a caller, and the engine's entities.
GuardInit ==
    /\ sessions = [s \in Sessions |-> NoSession]
    /\ now = StartTime
    /\ subscribed = TRUE
    /\ lastKnownRequests = EmptyMap
    /\ notificationDebounce = EmptyMap
    /\ lastReadyNotificationAt = EmptyMap
    /\ timers = {}
    /\ tasks = EmptyBag
    /\ obs = NoObs
    /\ messages = {}
    /\ \E namespace \in CallerNamespaces, session \in EngineSessions,
          machine \in EngineMachines, requireActive \in RequireActiveArgs :
           ret = [op |-> "request", namespace |-> namespace, session |-> session,
                  machine |-> machine, requireActive |-> requireActive]
    /\ readyLog = [s \in Sessions |-> [c \in Channels |-> -1]]
    /\ idHistory = [s \in Sessions |-> [ever |-> {}, gone |-> {}, last |-> {}]]
    /\ hung = {}
    /\ held = {}
    /\ writers = [w \in Writers |-> IdleWriter]
    /\ database = NewDatabase
    /\ created = {}
    /\ lapsed = [s \in Sessions |-> NoLapse]
    /\ config = InitialConfig
    /\ terminals = NoTerminals

RequireSession ==
    /\ ret.op = "request"
    /\ LET access == resolveSessionAccess(ret.session, "s1", ret.namespace)
       IN  ret' = [op |-> "requireSession", namespace |-> ret.namespace,
                   requireActive |-> ret.requireActive, access |-> access,
                   result |-> requireSession(access, ret.requireActive)]
    /\ PushFrame

RequireMachine ==
    /\ ret.op = "request"
    /\ ret' = [op |-> "requireMachine", namespace |-> ret.namespace,
               machine |-> ret.machine,
               result |-> requireMachine(ret.namespace, ret.machine)]
    /\ PushFrame

GuardNext ==
    \/ RequireSession
    \/ RequireMachine

GuardSpec == GuardInit /\ [][GuardNext]_vars

\* C30: requireSession returns the session only when resolveSessionAccess
\* succeeded (and, with requireActive, the session is active), answers 403 for
\* access-denied, 404 for not-found and namespace-missing, 409 for an inactive
\* session; requireMachine answers 404 for an unknown machine and 403 for a
\* machine of another namespace; neither returns an entity of a namespace
\* other than the caller's.
C30_GuardStatuses ==
    /\ ret.op = "requireSession" =>
           /\ ret.result.kind = "session" <=>
                  (ret.access.ok /\ (ret.requireActive = JTrue => ret.access.session.active))
           /\ ret.result.kind = "session" =>
                  /\ ret.result.session = ret.access.session
                  /\ JString(ret.result.session.namespace) = ret.namespace
           /\ (~ret.access.ok /\ ret.access.reason = "access-denied") =>
                  (ret.result.kind = "response" /\ ret.result.status = 403)
           /\ (~ret.access.ok /\ ret.access.reason \in {"not-found", "namespace-missing"}) =>
                  (ret.result.kind = "response" /\ ret.result.status = 404)
           /\ (ret.access.ok /\ ret.requireActive = JTrue /\ ~ret.access.session.active) =>
                  (ret.result.kind = "response" /\ ret.result.status = 409)
    /\ ret.op = "requireMachine" =>
           /\ ~ret.machine.exists => (ret.result.kind = "response" /\ ret.result.status = 404)
           /\ (ret.machine.exists /\ JString(ret.machine.namespace) # ret.namespace) =>
                  (ret.result.kind = "response" /\ ret.result.status = 403)
           /\ ret.result.kind = "machine" =>
                  /\ ret.result.machine = ret.machine
                  /\ JString(ret.result.machine.namespace) = ret.namespace

\* C30 witness: a caller asked for a machine of another namespace and got 403.
C30_MachineDenied ==
    /\ ret.op = "requireMachine"
    /\ ret.machine.exists
    /\ ret.namespace = JString("alpha")
    /\ ret.machine.namespace = "beta"
    /\ ret.result.kind = "response"
    /\ ret.result.status = 403

\* ------------------------------------------------------------------ C31

\* The dispatch a channel call belongs to.
SameDispatch(call, task) ==
    /\ call.kind = task.kind
    /\ call.sid = task.sid
    /\ call.sess = task.sess

\* C31: channel invocation order. The channel calls of one step belong to one
\* dispatch, carry one session value and go to consecutive channels in list
\* order; a trigger (sync event or debounce timer) starts at the first channel;
\* a call follows another in the same step only when the earlier one threw; the
\* last call of the step is awaited unless it threw on the last channel; and a
\* dispatch awaiting channel k goes on with channel k+1, and with no other,
\* exactly when the call it awaits settles (resolved or rejected): a call that
\* never settles is followed by none.
C31_ChannelInvocationOrder ==
    [][ LET inv == obs'.invoked
            n == Len(inv)
        IN  /\ OneDispatch(obs')
            /\ \A i \in 1..(n - 1) :
                   /\ inv[i + 1].ch = inv[i].ch + 1
                   /\ inv[i].ch \in obs'.failed
            /\ n > 0 =>
                   /\ IF obs'.ev # <<>> \/ obs'.fired # <<>>
                      THEN inv[1].ch = 1
                      ELSE \E task \in BagToSet(tasks) :
                               /\ SameDispatch(inv[1], task)
                               /\ inv[1].ch = task.ch + 1
                               /\ CopiesIn(task, tasks') < CopiesIn(task, tasks)
                   /\ IF inv[n].ch \in obs'.failed
                      THEN inv[n].ch = NumChannels /\ obs'.finished # <<>>
                      ELSE \E task \in BagToSet(tasks') :
                               SameDispatch(inv[n], task) /\ task.ch = inv[n].ch
            /\ \A task \in BagToSet(tasks) :
                   CopiesIn(task, tasks') < CopiesIn(task, tasks) =>
                       \/ obs' = NoObs /\ hung' # {}
                       \/ task.ch = NumChannels /\ n = 0 /\ obs'.finished # <<>>
                       \/ /\ n > 0
                          /\ SameDispatch(inv[1], task)
                          /\ inv[1].ch = task.ch + 1
      ]_vars

\* C31 witness: the first channel's call was rejected and the loop went on to
\* the second channel with the same session.
C31_SecondAfterRejection ==
    /\ obs.ev = <<>>
    /\ obs.fired = <<>>
    /\ 1 \in obs.failed
    /\ Len(obs.invoked) = 1
    /\ obs.invoked[1].ch = 2

\* ------------------------------------------------------------------ C32

\* The sessions of LeakSpec: inactive, or active with no requests map or with
\* request r1 pending.
LeakSessions == HungSessions \cup {v \in LiveSessions : ~v.active}

\* The history of deactivations: when a session-added / session-updated event
\* shows a session inactive, what the hub held for it (the recorded ids and the
\* time of the last ready notification); perm and ready stay set until the
\* next event of that kind has been handled for the session, active again.
TrackLapse ==
    lapsed' = [s \in Sessions |->
        IF IsSessionEvent(obs', s) /\ ~Notifiable(sessions'[s])
        THEN [ids |-> lapsed[s].ids \cup Known(s),
              readyAt |-> IF s \in DOMAIN lastReadyNotificationAt
                          THEN lastReadyNotificationAt[s] ELSE lapsed[s].readyAt,
              perm |-> TRUE, ready |-> TRUE]
        ELSE IF IsSessionEvent(obs', s) /\ sessions'[s].hasRequests
        THEN [lapsed[s] EXCEPT !.perm = FALSE]
        ELSE IF IsReadyEvent(obs', s) /\ Notifiable(sessions[s])
        THEN [lapsed[s] EXCEPT !.ready = FALSE]
        ELSE lapsed[s]]

Lapsing ==
    /\ TrackLapse
    /\ UNCHANGED <<messages, ret, readyLog, idHistory, hung, held, writers, database, created, config, terminals>>

\* One session that is created, deactivated and reactivated under its id.
LeakNext ==
    \/ \E sid \in Driven : SessionAdded(sid, LeakSessions) /\ Lapsing
    \/ \E sid \in Driven : SessionUpdated(sid, LeakSessions) /\ Lapsing
    \/ \E sid \in Driven : MessageReceived(sid) /\ Lapsing
    \/ TimerFire /\ Lapsing
    \/ ChannelSettles /\ Lapsing
    \/ Tick /\ Lapsing

\* The NotificationHub over deactivations and reactivations of a session.
LeakSpec == Init /\ [][LeakNext]_vars

\* C32: no state leak across reactivation. After a session-added /
\* session-updated event showed the session inactive, the first such event
\* that shows it active with a request id recorded before the deactivation
\* still pending treats that id as new (the debounce timer is started and
\* nothing is sent by the event), and the first ready event for the active
\* session is notified whatever the time of the ready notification before the
\* deactivation.
C32_NoLeakAcrossReactivation ==
    [][ \A sid \in Sessions :
            /\ ( /\ IsSessionEvent(obs', sid)
                 /\ Notifiable(sessions'[sid])
                 /\ lapsed[sid].perm
                 /\ CurrentIds(sessions'[sid]) \cap lapsed[sid].ids # {} )
               => /\ sid \in DOMAIN notificationDebounce'
                  /\ TimersOf(timers', sid) =
                        {[h |-> notificationDebounce'[sid], sid |-> sid,
                          due |-> now + PermissionDebounceMs]}
                  /\ obs'.invoked = <<>>
            /\ ( /\ IsReadyEvent(obs', sid)
                 /\ Notifiable(sessions[sid])
                 /\ lapsed[sid].ready
                 /\ lapsed[sid].readyAt >= 0 )
               => /\ obs'.invoked # <<>>
                  /\ obs'.invoked[1] = Call("sendReady", 1, sid, sessions[sid])
                  /\ sid \in DOMAIN lastReadyNotificationAt'
                  /\ lastReadyNotificationAt'[sid] = now
      ]_vars

\* C32 witness: the session was reactivated with the request recorded before
\* the deactivation, its timer is pending again, and a ready event has just
\* been notified inside the cooldown of the notification before the
\* deactivation.
C32_Reactivated ==
    \E sid \in Sessions :
        /\ IsReadyEvent(obs, sid)
        /\ obs.invoked # <<>>
        /\ lapsed[sid].readyAt >= 0
        /\ now - lapsed[sid].readyAt < ReadyCooldownMs
        /\ ~lapsed[sid].ready
        /\ ~lapsed[sid].perm
        /\ sid \in DOMAIN notificationDebounce
        /\ Known(sid) \cap lapsed[sid].ids # {}

\* ------------------------------------------------------------------ C33

IsPermissionCall(call) == call.kind = "sendPermissionRequest"

\* C33 as stated: every sendPermissionRequest invocation passes a session with
\* at least one pending request in agentState.requests.
C33_SomethingToShow ==
    \A i \in 1..Len(obs.invoked) :
        IsPermissionCall(obs.invoked[i]) => CurrentIds(obs.invoked[i].sess) # {}

\* C33 amended: every sendPermissionRequest invocation passes an active
\* session; a session event for an active session that shows no new request id
\* (also one that shows no pending request at all) leaves the session's
\* pending timer alone; and the timer's firing for an active session invokes
\* sendPermissionRequest with the session as the Sync Engine holds it then,
\* whatever requests it has left.
C33_SentWithSessionAtFire ==
    [][ /\ \A i \in 1..Len(obs'.invoked) :
               IsPermissionCall(obs'.invoked[i]) => Notifiable(obs'.invoked[i].sess)
        /\ \A sid \in Sessions :
               ( /\ IsSessionEvent(obs', sid)
                 /\ Notifiable(sessions'[sid])
                 /\ CurrentIds(sessions'[sid]) \ Known(sid) = {} )
               => /\ TimersOf(timers', sid) = TimersOf(timers, sid)
                  /\ obs'.cancelled = {}
        /\ (obs'.fired # <<>> /\ Notifiable(sessions[obs'.fired[1].sid])) =>
               /\ obs'.invoked # <<>>
               /\ obs'.invoked[1] =
                     Call("sendPermissionRequest", 1, obs'.fired[1].sid,
                          sessions[obs'.fired[1].sid])
      ]_vars

\* C33 witness: the timer fired after the request that started it was
\* resolved, and sendPermissionRequest got a session with an empty requests map.
C33_NothingToShow ==
    /\ obs.fired # <<>>
    /\ obs.invoked # <<>>
    /\ IsPermissionCall(obs.invoked[1])
    /\ obs.invoked[1].sess.hasRequests
    /\ obs.invoked[1].sess.requests = {}

\* ------------------------------------------------------------------ C34

\* One millisecond passes, no timer being due. Times are kept relative to
\* `now`: the due times move one step closer instead of the clock moving on,
\* so that the hub can be observed for any length of time. (The ready path,
\* which stores wall-clock times, is not part of this specification.)
Elapse ==
    /\ \A t \in timers : ~TimerDue(t)
    /\ timers' = {[t EXCEPT !.due = @ - 1] : t \in timers}
    /\ obs' = NoObs
    /\ UNCHANGED <<sessions, now, subscribed, lastKnownRequests, notificationDebounce,
                   lastReadyNotificationAt, tasks>>

\* A session that stays active while the hub is not stopped, for all time.
DebounceNext ==
    \/ \E sid \in Driven : SessionAdded(sid, ActiveSessions) /\ Tracked
    \/ \E sid \in Driven : SessionUpdated(sid, ActiveSessions) /\ Tracked
    \/ TimerFire /\ Tracked
    \/ ChannelSettles /\ Tracked
    \/ Elapse /\ Tracked

\* The permission path for all time: time passes, a due timer's callback is
\* run, and channel calls settle.
DebounceSpec ==
    /\ Init
    /\ [][DebounceNext]_vars
    /\ WF_vars(Elapse /\ Tracked)
    /\ WF_vars(TimerFire /\ Tracked)
    /\ WF_vars(ChannelSettles /\ Tracked)

\* A session event has just introduced a new id: the session's timer is due a
\* full permissionDebounceMs from now.
Introduced(sid) ==
    /\ IsSessionEvent(obs, sid)
    /\ \E t \in timers : t.sid = sid /\ t.due = now + PermissionDebounceMs

Delivered(sid) ==
    \E i \in 1..Len(obs.invoked) :
        IsPermissionCall(obs.invoked[i]) /\ obs.invoked[i].sid = sid

OrderKept(db, after, a, b) ==
    \A x \in SameId(after, a), y \in SameId(after, b) : a.seq < b.seq => x.seq < y.seq

\* C35: merge keeps the target well-formed. After a successful merge of `from`
\* (m messages) into another session `to` (n messages), `to` holds exactly the
\* m+n messages of both, at the seqs 1..m+n, one each; two messages that came
\* from the same session keep their order; `from` holds none; and moved = m.
\* A merge of a session into itself changes no row and returns
\* {moved: 0, oldMaxSeq: 0, newMaxSeq: 0}.
C35_MergeWellFormed ==
    [][ /\ MergedOk(ret') =>
            LET movedRows == RowsOf(messages, ret'.from)
                targetRows == RowsOf(messages, ret'.to)
                merged == RowsOf(messages', ret'.to)
                total == Cardinality(movedRows) + Cardinality(targetRows)
            IN  /\ {r.id : r \in merged} = {r.id : r \in movedRows \cup targetRows}
                /\ Cardinality(merged) = total
                /\ {r.seq : r \in merged} = 1..total
                /\ \A a, b \in movedRows : OrderKept(messages, messages', a, b)
                /\ \A a, b \in targetRows : OrderKept(messages, messages', a, b)
                /\ RowsOf(messages', ret'.from) = {}
                /\ ret'.moved = Cardinality(movedRows)
        /\ (IsMerge(ret') /\ ret'.from = ret'.to) =>
               /\ messages' = messages
               /\ ret'.status = "ok"
               /\ ret'.moved = 0
               /\ ret'.oldMaxSeq = 0
               /\ ret'.newMaxSeq = 0
      ]_vars

\* C35 witness: a merge of one message into a session that held two.
C35_OneIntoTwo ==
    /\ MergedOk(ret)
    /\ ret.moved = 1
    /\ ret.newMaxSeq = 2
    /\ {r.seq : r \in RowsOf(messages, ret.to)} = 1..3

\* ------------------------------------------------------------------ C36

\* The sessions of FrameSpec: inactive, or active with request r1 pending.
FrameSessions == {v \in LeakSessions : v.active => v.hasRequests}

\* Two sessions that are created, updated, deactivated and removed side by
\* side; the messages are those of one of them.
FrameNext ==
    \/ \E sid \in Sessions : SessionAdded(sid, FrameSessions) /\ HubOnly
    \/ \E sid \in Sessions : SessionUpdated(sid, FrameSessions) /\ HubOnly
    \/ \E sid \in Sessions : SessionRemoved(sid) /\ HubOnly
    \/ \E sid \in Driven : MessageReceived(sid) /\ HubOnly
    \/ TimerFire /\ HubOnly
    \/ ChannelSettles /\ HubOnly
    \/ Tick /\ HubOnly

\* The NotificationHub with the events of two sessions interleaved.
FrameSpec == Init /\ [][FrameNext]_vars

\* The entry of a Map for a key: none or one value.
Entry(m, key) == IF key \in DOMAIN m THEN <<m[key]>> ELSE <<>>

\* What the hub holds for session sid in the state with these maps and timers.
HeldFor(known, debounce, ready, ts, sid) ==
    <<Entry(known, sid), Entry(debounce, sid), Entry(ready, sid), TimersOf(ts, sid)>>

\* C36: per-session and per-kind independence. Handling a sync event for one
\* session leaves the recorded request set, the debounce timer and the ready
\* timestamp of every other session as they were; a message-received event
\* changes no recorded request set and no timer; and a session-added /
\* session-updated event for an active session leaves that session's ready
\* timestamp as it was.
C36_Independence ==
    [][ obs'.ev # <<>> =>
          LET e == obs'.ev[1]
          IN  /\ \A other \in Sessions \ {e.sessionId} :
                     HeldFor(lastKnownRequests', notificationDebounce',
                             lastReadyNotificationAt', timers', other)
                     = HeldFor(lastKnownRequests, notificationDebounce,
                               lastReadyNotificationAt, timers, other)
              /\ e.type = "message-received" =>
                     /\ lastKnownRequests' = lastKnownRequests
                     /\ notificationDebounce' = notificationDebounce
                     /\ timers' = timers
              /\ (IsSessionEvent(obs', e.sessionId) /\ Notifiable(sessions'[e.sessionId])) =>
                     Entry(lastReadyNotificationAt', e.sessionId)
                     = Entry(lastReadyNotificationAt, e.sessionId)
      ]_vars

\* C36 witness: one session was deactivated, and its state cleared, while the
\* other held recorded ids, a pending timer and a ready timestamp.
C36_ClearedBesideOther ==
    \E sid \in Sessions, other \in Sessions :
        /\ sid # other
        /\ IsSessionEvent(obs, sid)
        /\ ~Notifiable(sessions[sid])
        /\ obs.cancelled # {}
        /\ other \in DOMAIN lastKnownRequests
        /\ other \in DOMAIN notificationDebounce
        /\ other \in DOMAIN lastReadyNotificationAt

\* ------------------------------------------------------------------ C37

\* One call of each implementation of extractMessageEventType on the event:
\* that of eventParsing.ts and the one with the event.data fallback.
ParseBoth(types) ==
    /\ ret.op = "event"
    /\ ret.event.type \in types
    /\ ret' = [op |-> "both", event |-> ret.event,
               parsing |-> eventParsing_extractMessageEventType(ret.event),
               fallback |-> extractMessageEventType(ret.event)]
    /\ UNCHANGED <<sessions, now, hubVars, obs, messages, readyLog, idHistory, hung,
                   held, writers, database, created, lapsed, config, terminals>>

AgreeNext ==
    \/ ParseBoth({"message-received"})
    \/ ParseBoth(OtherEventTypes)

\* The two implementations of extractMessageEventType side by side.
AgreeSpec == ParseInit /\ [][AgreeNext]_vars

ContentPresent(event) == ContentOf(event).k \notin {"undefined", "null"}

\* C37: the two implementations agree on canonical events. On an event that is
\* not message-received, and on a message-received event whose message content
\* is neither null nor undefined, both return the same value; where they
\* differ, the message content is absent and the event carries a top-level
\* data field.
C37_ImplementationsAgree ==
    ret.op = "both" =>
        /\ (ret.event.type # "message-received" \/ ContentPresent(ret.event))
               => ret.parsing = ret.fallback
        /\ ret.parsing # ret.fallback
               => /\ ret.event.type = "message-received"
                  /\ ~ContentPresent(ret.event)
                  /\ ret.event.data # JUndefined

\* C37 witness: an event with a ready envelope in its message content and a
\* top-level data field beside it: both implementations return 'ready'.
C37_SameWithDataBeside ==
    /\ ret.op = "both"
    /\ ret.event.type = "message-received"
    /\ ContentPresent(ret.event)
    /\ ret.event.data # JUndefined
    /\ ret.parsing = JString("ready")
    /\ ret.fallback = JString("ready")

\* ------------------------------------------------------------------ C38

\* The permission modes of the codex flavor.
CodexPermissionModes == {"default", "read-only", "safe-yolo", "yolo"}

\* value.trim(), on the strings of the payloads.
Trim(s) ==
    CASE s = "  " -> ""
      [] s = " plan " -> "plan"
      [] OTHER -> s

\* resolvePermissionMode(value): the mode, or Throws ('Invalid permission mode').
resolvePermissionMode(value) ==
    IF value.k = "string" /\ value.s \in CodexPermissionModes THEN value ELSE Throws

\* resolveCollaborationMode(value): null gives undefined; a string is trimmed;
\* anything else, and a blank string, Throws ('Invalid collaboration mode').
resolveCollaborationMode(value) ==
    IF value = JNull THEN JUndefined
    ELSE IF value.k # "string" THEN Throws
    ELSE IF Trim(value.s) = "" THEN Throws
    ELSE JString(Trim(value.s))

\* resolveModel(value)
resolveModel(value) ==
    IF value = JNull THEN JUndefined
    ELSE IF value.k # "string" THEN Throws
    ELSE IF Trim(value.s) = "" THEN Throws
    ELSE JString(Trim(value.s))

\* sessionInstance.setPermissionMode(currentPermissionMode)
syncSessionMode(cfg) == [cfg EXCEPT !.synced = cfg.permissionMode]

\* value ?? null
OrNullValue(value) == IF value = JUndefined THEN JNull ELSE value

\* The set-session-config handler on `payload`, the three variables being
\* cfg: each field that is present is resolved and assigned in turn, and a
\* field that does not resolve ends the call with what was assigned so far.
setSessionConfig(cfg, payload) ==
    IF payload.k # "object" THEN [status |-> "threw", config |-> cfg]
    ELSE LET permissionMode == IF payload.permissionMode = JUndefined
                               THEN cfg.permissionMode
                               ELSE resolvePermissionMode(payload.permissionMode)
             afterPermission == [cfg EXCEPT !.permissionMode = permissionMode]
             collaborationMode == IF payload.collaborationMode = JUndefined
                                  THEN cfg.collaborationMode
                                  ELSE resolveCollaborationMode(payload.collaborationMode)
             afterCollaboration ==
                 [afterPermission EXCEPT !.collaborationMode = collaborationMode]
             model == IF payload.model = JUndefined THEN cfg.model
                      ELSE resolveModel(payload.model)
             afterModel == [afterCollaboration EXCEPT !.model = model]
         IN  IF permissionMode = Throws THEN [status |-> "threw", config |-> cfg]
             ELSE IF collaborationMode = Throws
             THEN [status |-> "threw", config |-> afterPermission]
             ELSE IF model = Throws
             THEN [status |-> "threw", config |-> afterCollaboration]
             ELSE [status |-> "ok", config |-> syncSessionMode(afterModel)]

\* The get-session-config handler.
getSessionConfig(cfg) ==
    [permissionMode |-> cfg.permissionMode,
     collaborationMode |-> OrNullValue(cfg.collaborationMode),
     model |-> OrNullValue(cfg.model)]

\* The payloads of set-session-config: no object, or an object whose fields
\* are absent, valid or invalid.
ConfigPayloads ==
    {JNull, JString("yolo")}
        \cup {[k |-> "object", permissionMode |-> p, collaborationMode |-> c, model |-> m] :
                p \in {JUndefined, JNull, JString("yolo"), JString("read-only"),
                       JString("bypassPermissions")},
                c \in {JUndefined, JNull, JString(" plan "), JString("  "), JNumber(1)},
                m \in {JUndefined, JNull, JString("gpt-5"), JString("  ")}}

ConfigFrame ==
    UNCHANGED <<sessions, now, hubVars, obs, messages, readyLog, idHistory, hung, held,
                writers, database, created, lapsed, terminals>>

SetSessionConfig ==
    \E payload \in ConfigPayloads :
        LET r == setSessionConfig(config, payload)
        IN  /\ config' = r.config
            /\ ret' = [op |-> "set-session-config", payload |-> payload,
                       status |-> r.status, before |-> getSessionConfig(config)]
            /\ ConfigFrame

GetSessionConfig ==
    /\ ret' = [op |-> "get-session-config", result |-> getSessionConfig(config)]
    /\ UNCHANGED config
    /\ ConfigFrame

ConfigNext ==
    \/ SetSessionConfig
    \/ GetSessionConfig

\* The session configuration of runCodex under its two RPC handlers.
ConfigSpec == Init /\ [][ConfigNext]_vars

\* C38: set-session-config is all-or-nothing. A call that rejects leaves the
\* permission mode, the collaboration mode and the model as they were, so that
\* get-session-config returns what it returned before the call.
C38_AllOrNothing ==
    [][ (ret'.op = "set-session-config" /\ ret'.status = "threw") =>
            /\ config' = config
            /\ getSessionConfig(config') = ret'.before
      ]_vars

\* ------------------------------------------------------------------ C39

CliSockets == {"cli1", "cli2"}
TerminalSockets == {"web1"}
TerminalIds == {"t1", "t2"}
TerminalEvents == {"terminal:ready", "terminal:output", "terminal:exit", "terminal:error"}

\* terminalRegistry.get(terminalId): the entries with that id (none or one).
registryGet(t, terminalId) == {e \in t.entries : e.terminalId = terminalId}

\* terminalRegistry.markActivity(terminalId): the entry with that id, if there
\* is one, is marked active; the call names no socket.
markActivity(t, terminalId) ==
    [t EXCEPT !.entries =
        {IF e.terminalId = terminalId THEN [e EXCEPT !.marked = TRUE] ELSE e : e \in @}]

\* terminalRegistry.remove(terminalId)
registryRemove(t, terminalId) ==
    [t EXCEPT !.entries = {e \in @ : e.terminalId # terminalId}]

NothingSent == [emitted |-> {}, accessError |-> {}]

\* forwardTerminalEvent(event, payload) of the handlers of `socket`: what is
\* emitted to a terminal socket, and the access error emitted instead.
forwardTerminalEvent(t, socket, event, payload) ==
    LET found == registryGet(t, payload.terminalId)
        entry == CHOOSE e \in found : TRUE
    IN  IF found = {} THEN NothingSent
        ELSE IF entry.cliSocketId # socket THEN NothingSent
        ELSE IF payload.sessionId # entry.sessionId THEN NothingSent
        ELSE IF payload.sessionId \notin t.accessible
        THEN [emitted |-> {}, accessError |-> {payload.sessionId}]
        ELSE IF entry.socketId \notin t.sockets THEN NothingSent
        ELSE [emitted |-> {[to |-> entry.socketId, event |-> event, payload |-> payload]},
              accessError |-> {}]

\* The handler of `socket` for `event` on the parsed payload: the registry
\* afterwards and what was sent.
onTerminalEvent(t, socket, event, payload) ==
    IF event \in {"terminal:ready", "terminal:output"}
    THEN [terminals |-> markActivity(t, payload.terminalId),
          sent |-> forwardTerminalEvent(markActivity(t, payload.terminalId), socket,
                                        event, payload)]
    ELSE IF event = "terminal:error"
    THEN [terminals |-> t, sent |-> forwardTerminalEvent(t, socket, event, payload)]
    ELSE LET found == registryGet(t, payload.terminalId)
             entry == CHOOSE e \in found : TRUE
         IN  IF found = {} \/ entry.sessionId # payload.sessionId
                \/ entry.cliSocketId # socket
             THEN [terminals |-> t, sent |-> NothingSent]
             ELSE [terminals |-> registryRemove(t, payload.terminalId),
                   sent |-> IF entry.socketId \notin t.sockets THEN NothingSent
                            ELSE [emitted |-> {[to |-> entry.socketId, event |-> event,
                                                payload |-> payload]},
                                  accessError |-> {}]]

\* cleanupTerminalHandlers(socket): the entries of the CLI socket are removed
\* and their terminal sockets told.
cleanupTerminalHandlers(t, socket) ==
    LET removed == {e \in t.entries : e.cliSocketId = socket}
    IN  [terminals |-> [t EXCEPT !.entries = @ \ removed],
         sent |-> [emitted |-> {[to |-> e.socketId, event |-> "terminal:error",
                                 payload |-> [terminalId |-> e.terminalId,
                                              message |-> "CLI disconnected."]] :
                                   e \in {x \in removed : x.socketId \in t.sockets}},
                   accessError |-> {}]]

\* The registries a server can hold: each terminal id registered at most once,
\* for some session, CLI socket and terminal socket.
Registries ==
    {es \in SUBSET [terminalId : TerminalIds, sessionId : Sessions,
                    cliSocketId : CliSockets, socketId : TerminalSockets, marked : {FALSE}] :
        \A e1, e2 \in es : e1.terminalId = e2.terminalId => e1 = e2}

\* A server with terminals registered, terminal sockets connected or gone, and
\* sessions the CLI may or may not access.
TerminalInit ==
    /\ sessions = [s \in Sessions |-> NoSession]
    /\ now = StartTime
    /\ subscribed = TRUE
    /\ lastKnownRequests = EmptyMap
    /\ notificationDebounce = EmptyMap
    /\ lastReadyNotificationAt = EmptyMap
    /\ timers = {}
    /\ tasks = EmptyBag
    /\ obs = NoObs
    /\ messages = {}
    /\ ret = NoRet
    /\ readyLog = [s \in Sessions |-> [c \in Channels |-> -1]]
    /\ idHistory = [s \in Sessions |-> [ever |-> {}, gone |-> {}, last |-> {}]]
    /\ hung = {}
    /\ held = {}
    /\ writers = [w \in Writers |-> IdleWriter]
    /\ database = NewDatabase
    /\ created = {}
    /\ lapsed = [s \in Sessions |-> NoLapse]
    /\ config = InitialConfig
    /\ \E es \in Registries, connected \in SUBSET TerminalSockets, granted \in SUBSET Sessions :
           terminals = [entries |-> es, sockets |-> connected, accessible |-> granted]

TerminalFrame ==
    UNCHANGED <<sessions, now, hubVars, obs, messages, readyLog, idHistory, hung, held,
                writers, database, created, lapsed, config>>

\* CLI socket `socket` sends `event` with a payload that parses.
TerminalEvent(event) ==
    \E socket \in CliSockets, sessionId \in Sessions, terminalId \in TerminalIds :
        LET payload == [sessionId |-> sessionId, terminalId |-> terminalId]
            r == onTerminalEvent(terminals, socket, event, payload)
        IN  /\ terminals' = r.terminals
            /\ ret' = [op |-> event, socket |-> socket, payload |-> payload, sent |-> r.sent]
            /\ TerminalFrame

\* CLI socket `socket` disconnects.
CleanupTerminalHandlers ==
    \E socket \in CliSockets :
        LET r == cleanupTerminalHandlers(terminals, socket)
        IN  /\ terminals' = r.terminals
            /\ ret' = [op |-> "disconnect", socket |-> socket, sent |-> r.sent]
            /\ TerminalFrame

TerminalNext ==
    \/ TerminalEvent("terminal:ready")
    \/ TerminalEvent("terminal:output")
    \/ TerminalEvent("terminal:exit")
    \/ TerminalEvent("terminal:error")
    \/ CleanupTerminalHandlers

\* The terminal handlers of the CLI sockets.
TerminalSpec == TerminalInit /\ [][TerminalNext]_vars

\* The registry entry the event of this step names, when the sending socket
\* owns it and the session ids agree.
OwnedBySender(t, r) ==
    \E e \in registryGet(t, r.payload.terminalId) :
        e.cliSocketId = r.socket /\ e.sessionId = r.payload.sessionId

\* C39: terminal ownership isolation. A terminal event of a CLI socket is
\* forwarded, and changes the registry, only for a terminal whose entry that
\* socket owns and whose session is the payload's; and then it changes that
\* entry alone. An event that names any other terminal has no effect.
C39_TerminalOwnership ==
    [][ ret'.op \in TerminalEvents =>
          /\ ~OwnedBySender(terminals, ret') =>
                 /\ terminals' = terminals
                 /\ ret'.sent = NothingSent
          /\ \A e \in terminals.entries :
                 e.terminalId # ret'.payload.terminalId => e \in terminals'.entries
          /\ \A m \in ret'.sent.emitted :
                 \E e \in registryGet(terminals, ret'.payload.terminalId) :
                     m.to = e.socketId
      ]_vars

====
